---- MODULE Spec2Model ----
(***************************************************************************)
(* A model of the STRAT pattern core of the ATLAS trading system:          *)
(*   - the bar classifier           (core/analyzer.py, trading/strat_signals.py) *)
(*   - the pattern deduplicator     (core/analyzer.py)                      *)
(*   - the signal cleaning pass     (trading/strat_signals.py)              *)
(*   - the pattern lifecycle machine (core/components.py)                   *)
(*   - the intrabar trigger refiner (core/triggers.py)                      *)
(*   - the 2-1-2 and rev-strat pattern detectors (core/analyzer.py)        *)
(*   - the signal generator's continuity scoring and validation            *)
(*                                  (trading/strat_signals.py)              *)
(*   - the 2-1-2 reversal and 2-2 continuation detectors (core/analyzer.py) *)
(*   - the pivot tracker: untaken pivots and PMG runs (core/components.py) *)
(*   - the portfolio heat manager   (utils/portfolio_heat.py)               *)
(*   - the drawdown circuit breakers (core/risk_manager.py)                 *)
(* Each component has its own variables and its own specification; the     *)
(* variables of the other components stay at their initial values.         *)
(* Prices are integers: cents, except where a rounding to cents is         *)
(* modelled, where they are tenths of a cent (mills).                      *)
(***************************************************************************)
EXTENDS Integers, Sequences, FiniteSets, TLC

VARIABLES
    \* ---- bar classifier (classify_bars / _classify_bars)
    impl,               \* which of the two classifiers runs
    df,                 \* the bar series: a sequence of [high, low]
    classifications,    \* the scenario codes written so far (the returned series when cl_pc = "done")
    governing_high,
    governing_low,
    cl_i,               \* 1-based index of the next bar the loop processes
    cl_pc,              \* "start", "loop", "done"
    \* ---- deduplicator (STRATAnalyzer._is_duplicate_pattern)
    recent_patterns,    \* deque(maxlen=50) of fingerprints, oldest first
    dd_last,            \* the signal of the last call (DdNoSignal while dd_n = 0)
    dd_ret,             \* the value the last call returned (FALSE while dd_n = 0)
    dd_n,               \* number of calls made
    \* ---- cleaning pass (clean_strat_signals_nb), one column
    long_en, long_ex, short_en, short_ex,               \* the raw boolean series
    new_long_en, new_long_ex, new_short_en, new_short_ex,   \* the cleaned series
    position,           \* 0 = flat, 1 = long, -1 = short
    cs_i,               \* 1-based index of the next bar the loop processes
    cs_pc,              \* "loop", "done"
    \* ---- pattern lifecycle machine (PatternStateMachine + its InsideBarTracker)
    patterns,           \* pattern_id -> [state, context]
    pattern_counter,
    inside_bars,        \* InsideBarTracker.inside_bars: index -> [high, low]
    \* ---- intrabar trigger refiner (IntrabarTriggerDetector.detect_triggers_in_pattern)
    tr_timeframe,       \* parent_timeframe
    tr_parent,          \* get_timeframe(parent_timeframe): <<>> for None, else <<the bar series>>
    tr_base,            \* get_timeframe('5min'): <<>> for None, else <<the bar series>>
    tr_idx,             \* pattern_bar_idx (0-based, as in the code)
    tr_type,            \* pattern_type
    tr_i,               \* 1-based position of the loop in base_bars
    triggers,           \* the list the call builds and returns
    tr_pc,              \* "start", "scan", "done", "returned"
    \* ---- pattern detectors of one STRATAnalyzer (detect_212_pattern, detect_rev_strat_pattern)
    dt_df,              \* the bar series: a sequence of [open, high, low, close, volume]
    dt_classes,         \* strat_classes, the series handed to the detectors
    dt_detector,        \* the detector called last ("" before the first call)
    dt_signals,         \* the list the last detector call returned
    dt_calls,           \* number of detector calls made on this analyzer
    dt_pc,              \* "start", "classified"
    \* ---- signal generator (STRATSignalGenerator), one daily bar
    gn_hourly,          \* the codes of the hourly bars on the day
    gn_d1, gn_w1, gn_m1,    \* the codes of the daily bar and of its weekly and monthly bars (0: none)
    gn_row,             \* the row of continuity_df: <<>> until computed, else <<the row>>
    gn_min_tfc_score,   \* self.min_tfc_score, in hundredths
    gn_require_ftfc,    \* self.require_ftfc
    gn_pattern,         \* the pattern of the last validation: <<>> or <<the dict>>
    gn_signal,          \* what the last validation returned: <<>> for None, else <<the signal>>
    gn_pc,              \* "start", "scored", "validated"
    \* ---- pivot tracker (PivotDetector.get_untaken_pivots, detect_pmg)
    pv_prices,          \* prices: the high series or the low series
    pv_pivots,          \* pivots: a list of [index, value]
    pv_type,            \* pivot_type: "high" or "low"
    pv_untaken,         \* the list get_untaken_pivots returned
    pv_array,           \* pivot_array: 1 = peak, -1 = valley, 0 = no pivot
    pv_pmg,             \* the list detect_pmg returned
    pv_pc,              \* "untaken", "pmg", "done"
    \* ---- portfolio heat (PortfolioHeatManager)
    ph_capital,         \* the capital handed to every call
    ph_positions,       \* active_positions: symbol -> <<>> (absent) or <<risk_amount>>
    ph_accepted,        \* <<symbol, risk>> can_accept_trade accepted in this state, else <<>>
    ph_ret,             \* what the last call returned or raised
    ph_n,               \* number of calls made
    ph_pc,              \* "run"
    \* ---- drawdown circuit breakers (RiskManager)
    rm_peak_equity,
    rm_current_equity,
    rm_trading_enabled,
    rm_risk_multiplier, \* in tenths: 10, 5, 0
    rm_n,               \* number of update_equity calls made
    rm_pc               \* "run"

clVars == <<impl, df, classifications, governing_high, governing_low, cl_i, cl_pc>>
ddVars == <<recent_patterns, dd_last, dd_ret, dd_n>>
csVars == <<long_en, long_ex, short_en, short_ex,
            new_long_en, new_long_ex, new_short_en, new_short_ex, position, cs_i, cs_pc>>

psVars == <<patterns, pattern_counter, inside_bars>>

trVars == <<tr_timeframe, tr_parent, tr_base, tr_idx, tr_type, tr_i, triggers, tr_pc>>

dtVars == <<dt_df, dt_classes, dt_detector, dt_signals, dt_calls, dt_pc>>

gnVars == <<gn_hourly, gn_d1, gn_w1, gn_m1, gn_row, gn_min_tfc_score, gn_require_ftfc,
            gn_pattern, gn_signal, gn_pc>>

pvVars == <<pv_prices, pv_pivots, pv_type, pv_untaken, pv_array, pv_pmg, pv_pc>>

phVars == <<ph_capital, ph_positions, ph_accepted, ph_ret, ph_n, ph_pc>>

rmVars == <<rm_peak_equity, rm_current_equity, rm_trading_enabled, rm_risk_multiplier,
            rm_n, rm_pc>>

vars == <<clVars, ddVars, csVars, psVars, trVars, dtVars, gnVars, pvVars, phVars, rmVars>>

\* The values a component's variables keep while another component runs.
ClIdle ==
    /\ impl = "analyzer" /\ df = <<>> /\ classifications = <<>>
    /\ governing_high = 0 /\ governing_low = 0 /\ cl_i = 0 /\ cl_pc = "idle"
DdIdle ==
    /\ recent_patterns = <<>> /\ dd_last = <<>> /\ dd_ret = FALSE /\ dd_n = 0
CsIdle ==
    /\ long_en = <<>> /\ long_ex = <<>> /\ short_en = <<>> /\ short_ex = <<>>
    /\ new_long_en = <<>> /\ new_long_ex = <<>> /\ new_short_en = <<>> /\ new_short_ex = <<>>
    /\ position = 0 /\ cs_i = 0 /\ cs_pc = "idle"

PsIdle ==
    /\ patterns = <<>> /\ pattern_counter = 0 /\ inside_bars = <<>>
TrIdle ==
    /\ tr_timeframe = "1H" /\ tr_parent = <<>> /\ tr_base = <<>> /\ tr_idx = 0
    /\ tr_type = "2-1-2" /\ tr_i = 0 /\ triggers = <<>> /\ tr_pc = "idle"
DtIdle ==
    /\ dt_df = <<>> /\ dt_classes = <<>> /\ dt_detector = "" /\ dt_signals = <<>>
    /\ dt_calls = 0 /\ dt_pc = "idle"
GnIdle ==
    /\ gn_hourly = <<>> /\ gn_d1 = 0 /\ gn_w1 = 0 /\ gn_m1 = 0 /\ gn_row = <<>>
    /\ gn_min_tfc_score = 50 /\ gn_require_ftfc = FALSE /\ gn_pattern = <<>> /\ gn_signal = <<>>
    /\ gn_pc = "idle"
PvIdle ==
    /\ pv_prices = <<>> /\ pv_pivots = <<>> /\ pv_type = "high" /\ pv_untaken = <<>>
    /\ pv_array = <<>> /\ pv_pmg = <<>> /\ pv_pc = "idle"
PhIdle ==
    /\ ph_capital = 0 /\ ph_positions = <<>> /\ ph_accepted = <<>> /\ ph_ret = ""
    /\ ph_n = 0 /\ ph_pc = "idle"
RmIdle ==
    /\ rm_peak_equity = 0 /\ rm_current_equity = 0 /\ rm_trading_enabled = TRUE
    /\ rm_risk_multiplier = 10 /\ rm_n = 0 /\ rm_pc = "idle"

Abs(x) == IF x < 0 THEN -x ELSE x

None == "None"

(***************************************************************************)
(* Bar classifier                                                          *)
(***************************************************************************)

\* Bounds of the classifier's inputs.
ClMaxBars == 3
ClMaxPrice == 3

ClPrices == 1..ClMaxPrice
ClBars == {b \in [high : ClPrices, low : ClPrices] : b.low <= b.high}
ClSeries == UNION {[1..n -> ClBars] : n \in 0..ClMaxBars}
\* A four-bar series in dollars: (H100,L95), (H103,L97), (H101,L98), (H105,L96).
ExampleBars ==
    <<[high |-> 100, low |-> 95], [high |-> 103, low |-> 97],
      [high |-> 101, low |-> 98], [high |-> 105, low |-> 96]>>

\* The marker classify_bars writes for the reference bar.
UNCLASSIFIED_MARKER == -999

\* np.zeros / pd.Series(0, ...): the value of an element never written.
ZeroFill(n) == [k \in 1..n |-> 0]

\* Plausible bug: an inside bar must be strictly within the governing range.
ClassifyBarStrictInside(current_high, current_low, gov_high, gov_low) ==
    LET is_inside == (current_high < gov_high) /\ (current_low > gov_low)
        breaks_high == current_high > gov_high
        breaks_low == current_low < gov_low
    IN  IF is_inside THEN 1
        ELSE IF breaks_high /\ breaks_low THEN 3
        ELSE IF breaks_high THEN 2
        ELSE IF breaks_low THEN -2
        ELSE 0

\* The if/elif chain of the loop body: the code written for one bar.
ClassifyBar(current_high, current_low, gov_high, gov_low) ==
    LET is_inside == (current_high <= gov_high) /\ (current_low >= gov_low)
        breaks_high == current_high > gov_high
        breaks_low == current_low < gov_low
    IN  IF is_inside THEN 1
        ELSE IF breaks_high /\ breaks_low THEN 3
        ELSE IF breaks_high THEN 2
        ELSE IF breaks_low THEN -2
        ELSE 0

\* Plausible bug: the governing range follows every bar, inside bars too.
GoverningAfterEveryBar(code, current_high, current_low, gov_high, gov_low) ==
    <<current_high, current_low>>

\* The governing range after the bar: replaced by the bar's range in the
\* branches 3, 2 and -2, kept in the inside branch.
GoverningAfter(code, current_high, current_low, gov_high, gov_low) ==
    IF code \in {3, 2, -2} THEN <<current_high, current_low>>
    ELSE <<gov_high, gov_low>>

ClFrame == UNCHANGED <<ddVars, csVars, psVars, trVars, dtVars, gnVars,
                       pvVars, phVars, rmVars>>

ClInit ==
    /\ impl \in {"analyzer", "generator"}
    /\ df \in ClSeries \cup {ExampleBars}
    /\ classifications = <<>>
    /\ governing_high = 0
    /\ governing_low = 0
    /\ cl_i = 0
    /\ cl_pc = "start"
    /\ DdIdle /\ CsIdle /\ PsIdle /\ TrIdle /\ DtIdle /\ GnIdle
    /\ PvIdle /\ PhIdle /\ RmIdle

\* Entry of the call: the early return for fewer than two bars, else the
\* initialisation of the array and of the governing range from bar 0.
ClassifyStart ==
    /\ cl_pc = "start"
    /\ IF Len(df) < 2
       THEN /\ classifications' = (IF impl = "analyzer" THEN <<>> ELSE ZeroFill(Len(df)))
            /\ cl_pc' = "done"
            /\ UNCHANGED <<governing_high, governing_low, cl_i>>
       ELSE /\ classifications' = (IF impl = "analyzer"
                                   THEN [ZeroFill(Len(df)) EXCEPT ![1] = UNCLASSIFIED_MARKER]
                                   ELSE ZeroFill(Len(df)))
            /\ governing_high' = df[1].high
            /\ governing_low' = df[1].low
            /\ cl_i' = 2
            /\ cl_pc' = "loop"
    /\ UNCHANGED <<impl, df>>
    /\ ClFrame

\* One iteration of `for i in range(1, n_bars)`.
ClassifyStep ==
    /\ cl_pc = "loop"
    /\ cl_i <= Len(df)
    /\ LET current_high == df[cl_i].high
           current_low == df[cl_i].low
           code == ClassifyBar(current_high, current_low, governing_high, governing_low)
           gov == GoverningAfter(code, current_high, current_low, governing_high, governing_low)
       IN  /\ classifications' = [classifications EXCEPT ![cl_i] = code]
           /\ governing_high' = gov[1]
           /\ governing_low' = gov[2]
    /\ cl_i' = cl_i + 1
    /\ UNCHANGED <<impl, df, cl_pc>>
    /\ ClFrame

\* The loop is exhausted: the series is returned.
ClassifyReturn ==
    /\ cl_pc = "loop"
    /\ cl_i > Len(df)
    /\ cl_pc' = "done"
    /\ UNCHANGED <<impl, df, classifications, governing_high, governing_low, cl_i>>
    /\ ClFrame

ClNext == ClassifyStart \/ ClassifyStep \/ ClassifyReturn

SpecClassify == ClInit /\ [][ClNext]_vars

ExampleStep(i) ==
    /\ df = ExampleBars /\ impl = "analyzer"
    /\ cl_pc = "loop" /\ cl_i = i /\ cl_i' = i + 1

\* C11: the four example bars classify as [Unclassified, Up, Inside, Up],
\* with governing range (103, 97) after bar 2, unchanged after bar 3, and
\* (105, 96) after bar 4.
C11_ExampleAsStated ==
    [][/\ ExampleStep(2) =>
            /\ classifications'[1] = UNCLASSIFIED_MARKER
            /\ classifications'[2] = 2
            /\ <<governing_high', governing_low'>> = <<103, 97>>
       /\ ExampleStep(3) =>
            /\ classifications'[3] = 1
            /\ <<governing_high', governing_low'>> = <<103, 97>>
       /\ ExampleStep(4) =>
            /\ classifications'[4] = 2
            /\ <<governing_high', governing_low'>> = <<105, 96>>
      ]_vars

\* C11 amended: the four example bars classify as [Unclassified, Up, Inside,
\* Outside] (bar 4 exceeds both bounds of the governing range), with governing
\* range (103, 97) after bar 2, unchanged after bar 3, and (105, 96) after
\* bar 4.
C11_ExampleAmended ==
    [][/\ ExampleStep(2) =>
            /\ classifications'[1] = UNCLASSIFIED_MARKER
            /\ classifications'[2] = 2
            /\ <<governing_high', governing_low'>> = <<103, 97>>
       /\ ExampleStep(3) =>
            /\ classifications'[3] = 1
            /\ <<governing_high', governing_low'>> = <<103, 97>>
       /\ ExampleStep(4) =>
            /\ classifications'[4] = 3
            /\ <<governing_high', governing_low'>> = <<105, 96>>
      ]_vars

\* C11 witness: the analyzer returned the classification of the example.
C11_Witness ==
    /\ cl_pc = "done" /\ impl = "analyzer" /\ df = ExampleBars
    /\ classifications = <<UNCLASSIFIED_MARKER, 2, 1, 3>>
    /\ <<governing_high, governing_low>> = <<105, 96>>

\* The value that stands for Unclassified in each classifier's output: the
\* analyzer's marker, and the generator's fill value (no scenario code).
Unclassified == IF impl = "analyzer" THEN UNCLASSIFIED_MARKER ELSE 0

\* C13: for every series of at least one bar, a single bar included, the
\* returned series has the length of the input and its element 0 is
\* Unclassified.
C13_SameLengthFirstUnclassified ==
    (cl_pc = "done" /\ Len(df) >= 1) =>
        /\ Len(classifications) = Len(df)
        /\ classifications[1] = Unclassified

(***************************************************************************)
(* Deduplicator                                                            *)
(***************************************************************************)

\* Bound: the number of duplicate checks made on the analyzer.
DdMaxChecks == 4

\* deque(maxlen=50)
RECENT_PATTERNS_MAXLEN == 50

\* The candidate the others are variations of. Prices are in mills.
DdBase ==
    [pattern |-> "2-1-2", timestamp |-> 1, entry_price |-> 101010,
     stop_loss |-> 100000, target_price |-> 103000, direction |-> "BULLISH"]

\* The value of dd_last before the first call: no candidate.
DdNoSignal ==
    [pattern |-> None, timestamp |-> 0, entry_price |-> 0,
     stop_loss |-> 0, target_price |-> 0, direction |-> None]

\* The candidates submitted: the base candidate and every candidate that
\* differs from it in exactly one field. 101.014 rounds to the base's cent,
\* 101.020 to the next cent, 101.040 to three cents away; 100.004 and 103.004
\* round to the base's stop and target.
DdSignals ==
    {DdBase}
    \cup {[DdBase EXCEPT !.pattern = "3-1-2"], [DdBase EXCEPT !.timestamp = 2],
          [DdBase EXCEPT !.direction = "BEARISH"]}
    \cup {[DdBase EXCEPT !.entry_price = e] : e \in {101014, 101020, 101040}}
    \cup {[DdBase EXCEPT !.stop_loss = p] : p \in {100004, 100500}}
    \cup {[DdBase EXCEPT !.target_price = p] : p \in {103004, 103500}}

\* round(x, 2) of a price given in mills, as a number of cents. No price of
\* the model ends in 5 mills, so no tie is rounded.
Round2(mills) == (mills + 5) \div 10

\* The lower cent c of each pair (c, c+1) of adjacent cent values, within
\* 100.95..101.11, for which IEEE-754 double arithmetic gives
\* abs(c/100 - (c+1)/100) < 0.01 (the difference computes to
\* 0.00999999999999...): 100.98, 101.01, 101.04, 101.06, 101.09.
AdjacentCentsBelowTolerance == {10098, 10101, 10104, 10106, 10109}

\* abs(a - b) < 0.01 on two prices already rounded to cents, as the double
\* arithmetic of the code evaluates it.
WithinTolerance(cents_a, cents_b) ==
    \/ cents_a = cents_b
    \/ /\ Abs(cents_a - cents_b) = 1
       /\ (IF cents_a < cents_b THEN cents_a ELSE cents_b) \in AdjacentCentsBelowTolerance

\* The fingerprint dictionary built from a signal.
Fingerprint(signal) ==
    [pattern |-> signal.pattern,
     timestamp |-> signal.timestamp,
     entry_price |-> Round2(signal.entry_price),
     stop_loss |-> Round2(signal.stop_loss),
     target_price |-> Round2(signal.target_price),
     direction |-> signal.direction]

\* The condition of the `if` inside the loop over recent_patterns.
MatchesRecent(recent_pattern, fingerprint) ==
    /\ recent_pattern.pattern = fingerprint.pattern
    /\ recent_pattern.timestamp = fingerprint.timestamp
    /\ WithinTolerance(recent_pattern.entry_price, fingerprint.entry_price)
    /\ recent_pattern.direction = fingerprint.direction

\* Plausible bug: the new fingerprint is not remembered.
DequeAppendDropped(buffer, item) == buffer

\* Plausible bug: the buffer is a plain list that nothing is evicted from.
DequeAppendUnbounded(buffer, item) == Append(buffer, item)

\* deque.append with maxlen: the oldest entry is dropped when full.
DequeAppend(buffer, item) ==
    IF Len(buffer) >= RECENT_PATTERNS_MAXLEN
    THEN Append(Tail(buffer), item)
    ELSE Append(buffer, item)

DdFrame == UNCHANGED <<clVars, csVars, psVars, trVars, dtVars, gnVars,
                       pvVars, phVars, rmVars>>

DdInit ==
    /\ recent_patterns = <<>>
    /\ dd_last = DdNoSignal
    /\ dd_ret = FALSE
    /\ dd_n = 0
    /\ ClIdle /\ CsIdle /\ PsIdle /\ TrIdle /\ DtIdle /\ GnIdle
    /\ PvIdle /\ PhIdle /\ RmIdle

\* One call of _is_duplicate_pattern(signal).
IsDuplicatePattern(signal) ==
    /\ dd_n < DdMaxChecks
    /\ LET fingerprint == Fingerprint(signal)
       IN  IF \E k \in 1..Len(recent_patterns) : MatchesRecent(recent_patterns[k], fingerprint)
           THEN /\ dd_ret' = TRUE
                /\ UNCHANGED recent_patterns
           ELSE /\ recent_patterns' = DequeAppend(recent_patterns, fingerprint)
                /\ dd_ret' = FALSE
    /\ dd_last' = signal
    /\ dd_n' = dd_n + 1
    /\ DdFrame

DdNext == \E signal \in DdSignals : IsDuplicatePattern(signal)

SpecDedup == DdInit /\ [][DdNext]_vars

\* A step that is a call of the duplicate check directly after a call whose
\* candidate had the same fingerprint.
DdRepeatedCall ==
    /\ dd_n' = dd_n + 1
    /\ dd_n > 0
    /\ Fingerprint(dd_last') = Fingerprint(dd_last)

C3_SixFieldMatch ==
    [][(dd_n' = dd_n + 1) =>
        LET fp == Fingerprint(dd_last')
            held == \E k \in 1..Len(recent_patterns) : recent_patterns[k] = fp
        IN  /\ dd_ret' = held
            /\ ~held => /\ Len(recent_patterns') > 0
                        /\ recent_patterns'[Len(recent_patterns')] = fp
      ]_vars

(***************************************************************************)
(* Cleaning pass                                                           *)
(***************************************************************************)

\* Bound: the length of the four boolean series.
CsMaxLen == 3

CsSeries == UNION {[1..n -> BOOLEAN] : n \in 0..CsMaxLen}

\* np.full_like(x, False)
FalseFill(n) == [k \in 1..n |-> FALSE]

\* Plausible bug: an exit is honoured whatever the position.
CleanBarExitAnywhere(le, lx, se, sx, pos) ==
    IF le /\ pos # 1 THEN [long_en |-> TRUE, long_ex |-> FALSE, short_en |-> FALSE, short_ex |-> FALSE, position |-> 1]
    ELSE IF se /\ pos # -1 THEN [long_en |-> FALSE, long_ex |-> FALSE, short_en |-> TRUE, short_ex |-> FALSE, position |-> -1]
    ELSE IF lx THEN [long_en |-> FALSE, long_ex |-> TRUE, short_en |-> FALSE, short_ex |-> FALSE, position |-> 0]
    ELSE IF sx THEN [long_en |-> FALSE, long_ex |-> FALSE, short_en |-> FALSE, short_ex |-> TRUE, position |-> 0]
    ELSE [long_en |-> FALSE, long_ex |-> FALSE, short_en |-> FALSE, short_ex |-> FALSE, position |-> pos]

\* Plausible bug: the short entry is tested with `if` instead of `elif`.
CleanBarIfShortEntry(le, lx, se, sx, pos) ==
    LET p1 == IF le /\ pos # 1 THEN 1 ELSE pos
        nle == le /\ pos # 1
    IN  IF se /\ p1 # -1 THEN [long_en |-> nle, long_ex |-> FALSE, short_en |-> TRUE, short_ex |-> FALSE, position |-> -1]
        ELSE IF nle THEN [long_en |-> TRUE, long_ex |-> FALSE, short_en |-> FALSE, short_ex |-> FALSE, position |-> 1]
        ELSE IF lx /\ p1 = 1 THEN [long_en |-> FALSE, long_ex |-> TRUE, short_en |-> FALSE, short_ex |-> FALSE, position |-> 0]
        ELSE IF sx /\ p1 = -1 THEN [long_en |-> FALSE, long_ex |-> FALSE, short_en |-> FALSE, short_ex |-> TRUE, position |-> 0]
        ELSE [long_en |-> FALSE, long_ex |-> FALSE, short_en |-> FALSE, short_ex |-> FALSE, position |-> pos]

\* The if/elif chain of the inner loop body: the flags written at one bar
\* and the position after it.
CleanBar(le, lx, se, sx, pos) ==
    IF le /\ pos # 1 THEN [long_en |-> TRUE, long_ex |-> FALSE, short_en |-> FALSE, short_ex |-> FALSE, position |-> 1]
    ELSE IF se /\ pos # -1 THEN [long_en |-> FALSE, long_ex |-> FALSE, short_en |-> TRUE, short_ex |-> FALSE, position |-> -1]
    ELSE IF lx /\ pos = 1 THEN [long_en |-> FALSE, long_ex |-> TRUE, short_en |-> FALSE, short_ex |-> FALSE, position |-> 0]
    ELSE IF sx /\ pos = -1 THEN [long_en |-> FALSE, long_ex |-> FALSE, short_en |-> FALSE, short_ex |-> TRUE, position |-> 0]
    ELSE [long_en |-> FALSE, long_ex |-> FALSE, short_en |-> FALSE, short_ex |-> FALSE, position |-> pos]

CsFrame == UNCHANGED <<clVars, ddVars, psVars, trVars, dtVars, gnVars,
                       pvVars, phVars, rmVars>>

\* The state on entry of the column loop: four series of one length, the
\* cleaned series all False, the position flat.
CsInit ==
    /\ \E n \in 0..CsMaxLen :
        /\ long_en \in [1..n -> BOOLEAN]
        /\ long_ex \in [1..n -> BOOLEAN]
        /\ short_en \in [1..n -> BOOLEAN]
        /\ short_ex \in [1..n -> BOOLEAN]
        /\ new_long_en = FalseFill(n)
        /\ new_long_ex = FalseFill(n)
        /\ new_short_en = FalseFill(n)
        /\ new_short_ex = FalseFill(n)
    /\ position = 0
    /\ cs_i = 1
    /\ cs_pc = "loop"
    /\ ClIdle /\ DdIdle /\ PsIdle /\ TrIdle /\ DtIdle /\ GnIdle
    /\ PvIdle /\ PhIdle /\ RmIdle

\* One iteration of `for i in range(long_en.shape[0])`.
CleanStep ==
    /\ cs_pc = "loop"
    /\ cs_i <= Len(long_en)
    /\ LET r == CleanBar(long_en[cs_i], long_ex[cs_i], short_en[cs_i], short_ex[cs_i], position)
       IN  /\ new_long_en' = [new_long_en EXCEPT ![cs_i] = r.long_en]
           /\ new_long_ex' = [new_long_ex EXCEPT ![cs_i] = r.long_ex]
           /\ new_short_en' = [new_short_en EXCEPT ![cs_i] = r.short_en]
           /\ new_short_ex' = [new_short_ex EXCEPT ![cs_i] = r.short_ex]
           /\ position' = r.position
    /\ cs_i' = cs_i + 1
    /\ UNCHANGED <<long_en, long_ex, short_en, short_ex, cs_pc>>
    /\ CsFrame

\* The loop is exhausted: the four cleaned series are returned.
CleanReturn ==
    /\ cs_pc = "loop"
    /\ cs_i > Len(long_en)
    /\ cs_pc' = "done"
    /\ UNCHANGED <<long_en, long_ex, short_en, short_ex,
                   new_long_en, new_long_ex, new_short_en, new_short_ex, position, cs_i>>
    /\ CsFrame

CsNext == CleanStep \/ CleanReturn

SpecClean == CsInit /\ [][CsNext]_vars

\* The replay of the cleaned series from a flat position: whether a long
\* (short) position is active after bar k. An entry opens its side and closes
\* the other one, an exit closes its side.
RECURSIVE LongActive(_), ShortActive(_)
LongActive(k) ==
    IF k = 0 THEN FALSE
    ELSE \/ new_long_en[k]
         \/ LongActive(k - 1) /\ ~new_long_ex[k] /\ ~new_short_en[k]
ShortActive(k) ==
    IF k = 0 THEN FALSE
    ELSE \/ new_short_en[k]
         \/ ShortActive(k - 1) /\ ~new_short_ex[k] /\ ~new_long_en[k]

\* C4: replaying the cleaned series from flat, no bar has long and short both
\* active, and no cleaned exit flag is set at a bar before which the position
\* is flat.
C4_NoOverlapNoExitWhileFlat ==
    \A k \in 1..Len(new_long_en) :
        /\ ~(LongActive(k) /\ ShortActive(k))
        /\ (new_long_ex[k] \/ new_short_ex[k]) => (LongActive(k - 1) \/ ShortActive(k - 1))

\* C4 witness: a finished pass over a series whose raw flags ask for both
\* entries at one bar and for an exit while flat.
C4_Witness ==
    /\ cs_pc = "done"
    /\ Len(long_en) = 3
    /\ long_ex[1] /\ ~long_en[1] /\ ~short_en[1]
    /\ long_en[2] /\ short_en[2]
    /\ short_en[3] /\ new_short_en[3]

\* C5: a cleaned long-entry only where the raw long-entry is set and the
\* position before the bar is not long; a cleaned short-entry only where the
\* raw short-entry is set and the position is not short; a cleaned long-exit
\* only where the raw long-exit is set and the position is long; a cleaned
\* short-exit only where the raw short-exit is set and the position is short;
\* and at most one of the four cleaned flags is set per bar.
C5_FlagsHonoured ==
    \A k \in 1..Len(new_long_en) :
        /\ new_long_en[k] => (long_en[k] /\ ~LongActive(k - 1))
        /\ new_short_en[k] => (short_en[k] /\ ~ShortActive(k - 1))
        /\ new_long_ex[k] => (long_ex[k] /\ LongActive(k - 1))
        /\ new_short_ex[k] => (short_ex[k] /\ ShortActive(k - 1))
        /\ Cardinality({f \in {"le", "lx", "se", "sx"} :
                          \/ f = "le" /\ new_long_en[k]
                          \/ f = "lx" /\ new_long_ex[k]
                          \/ f = "se" /\ new_short_en[k]
                          \/ f = "sx" /\ new_short_ex[k]}) <= 1

\* C5 witness: a finished pass at whose last bar all four raw flags are set
\* while long, so that only the short entry survives.
C5_Witness ==
    /\ cs_pc = "done"
    /\ Len(long_en) = 2
    /\ new_long_en[1]
    /\ long_en[2] /\ long_ex[2] /\ short_en[2] /\ short_ex[2]
    /\ new_short_en[2] /\ ~new_long_en[2] /\ ~new_long_ex[2] /\ ~new_short_ex[2]

(***************************************************************************)
(* Pattern lifecycle machine                                               *)
(***************************************************************************)
\* An Optional value is a sequence: <<>> is None, <<v>> is the value v.
\* Prices are in cents.

\* Bounds: the scenario codes one pattern is given, and the price levels.
PsMaxBarsSeen == 4
PsMaxPrice == 3

\* InsideBarTracker(buffer=0.01), in cents.
TRACKER_BUFFER == 1

PsPrices == 1..PsMaxPrice
PsBars == {b \in [high : PsPrices, low : PsPrices] : b.low <= b.high}
PsCodes == {1, 2, -2, 3}
\* The fill price the caller reports to enter_trade.
PsFills == {PsMaxPrice}
PsPatternTypes == {"2-1-2", "3-1-2"}
\* The pattern ids the caller uses: at most two patterns are started.
PsIds == {0, 1}
\* The scenario codes given to all patterns together: the first bar of each
\* pattern and three updates.
PsMaxBarsTotal == Cardinality(PsIds) + 3
\* The values of the untaken pivots the caller builds targets from.
PsPivotValues == 1..(PsMaxPrice + 1)

\* PatternState
SCANNING == "scanning"
PENDING == "pending"
TRIGGERED == "triggered"
IN_FORCE == "in_force"
ENTERED == "entered"
COMPLETE == "complete"
FAILED == "failed"

\* PatternContext(pattern_type=...) with bars_seen = [first_bar].
NewContext(pattern_type, first_bar) ==
    [pattern_type |-> pattern_type,
     bars_seen |-> <<first_bar>>,
     inside_bar_idx |-> <<>>,
     direction |-> None,
     entry_trigger |-> <<>>,
     stop_level |-> <<>>,
     targets |-> <<>>,
     trigger_time |-> <<>>,
     entry_price |-> <<>>,
     entry_time |-> <<>>,
     own_inside_bar |-> <<>>]

\* own_inside_bar is not a field of the code's PatternContext: it records
\* the bar that was passed to the update that made the pattern Pending.

\* inside_bars[idx] = {...}: a dictionary store.
DictPut(dict, key, value) ==
    [k \in (DOMAIN dict) \cup {key} |-> IF k = key THEN value ELSE dict[k]]

\* InsideBarTracker.mark_inside_bar
MarkInsideBar(tracker, idx, high, low) == DictPut(tracker, idx, [high |-> high, low |-> low])

\* InsideBarTracker.get_trigger_price
GetTriggerPrice(tracker, bar_idx, direction) ==
    IF bar_idx \notin DOMAIN tracker THEN <<>>
    ELSE IF direction = "long" THEN <<tracker[bar_idx].high + TRACKER_BUFFER>>
    ELSE <<tracker[bar_idx].low - TRACKER_BUFFER>>

\* InsideBarTracker.get_stop_price
GetStopPrice(tracker, bar_idx, direction) ==
    IF bar_idx \notin DOMAIN tracker THEN <<>>
    ELSE IF direction = "long" THEN <<tracker[bar_idx].low>>
    ELSE <<tracker[bar_idx].high>>

\* The number of scenario codes given to all tracked patterns.
RECURSIVE BarsTotal(_)
BarsTotal(ids) ==
    IF ids = {} THEN 0
    ELSE LET id == CHOOSE x \in ids : TRUE
         IN  Len(patterns[id].context.bars_seen) + BarsTotal(ids \ {id})

\* update_pattern after the lookup: the new (state, context) and the tracker.
UpdateResult(state, context, tracker, new_bar, bar_high, bar_low) ==
    LET bars == Append(context.bars_seen, new_bar)
        c1 == [context EXCEPT !.bars_seen = bars]
    IN  IF context.pattern_type # "2-1-2"
        THEN [state |-> state, context |-> c1, tracker |-> tracker]
        ELSE IF Len(bars) = 2 /\ bars[Len(bars)] = 1
        THEN [state |-> PENDING,
              context |-> [c1 EXCEPT !.inside_bar_idx = <<Len(bars) - 1>>,
                                     !.own_inside_bar = <<[high |-> bar_high, low |-> bar_low]>>],
              tracker |-> MarkInsideBar(tracker, Len(bars) - 1, bar_high, bar_low)]
        ELSE IF Len(bars) = 3
        THEN LET dir == IF bars[1] = 2 /\ bars[3] = -2 THEN "bearish"
                        ELSE IF bars[1] = -2 /\ bars[3] = 2 THEN "bullish"
                        ELSE context.direction
                 c2 == [c1 EXCEPT !.direction = dir]
                 side == IF dir = "bullish" THEN "long" ELSE "short"
                 c3 == IF c2.inside_bar_idx # <<>>
                       THEN [c2 EXCEPT
                               !.entry_trigger = GetTriggerPrice(tracker, c2.inside_bar_idx[1], side),
                               !.stop_level = GetStopPrice(tracker, c2.inside_bar_idx[1], side)]
                       ELSE c2
             IN  [state |-> TRIGGERED, context |-> c3, tracker |-> tracker]
        ELSE [state |-> state, context |-> c1, tracker |-> tracker]

\* check_trigger on a Triggered pattern: "True", "False", or "TypeError"
\* when a comparison meets an entry trigger that is None.
TriggerOutcome(context, current_high, current_low) ==
    IF context.direction = "bullish"
    THEN IF context.entry_trigger = <<>> THEN "TypeError"
         ELSE IF current_high >= context.entry_trigger[1] THEN "True" ELSE "False"
    ELSE IF context.direction = "bearish"
    THEN IF context.entry_trigger = <<>> THEN "TypeError"
         ELSE IF current_low <= context.entry_trigger[1] THEN "True" ELSE "False"
    ELSE "False"

\* Plausible bug: the target is tested before the stop and with a strict
\* comparison.
ExitOutcomeStrictTarget(context, current_high, current_low) ==
    IF context.direction = "bullish"
    THEN IF context.targets # <<>> /\ current_high > context.targets[1] THEN "complete"
         ELSE IF context.stop_level = <<>> THEN "TypeError"
         ELSE IF current_low <= context.stop_level[1] THEN "failed"
         ELSE "active"
    ELSE IF context.direction = "bearish"
    THEN IF context.targets # <<>> /\ current_low < context.targets[1] THEN "complete"
         ELSE IF context.stop_level = <<>> THEN "TypeError"
         ELSE IF current_high >= context.stop_level[1] THEN "failed"
         ELSE "active"
    ELSE "active"

\* check_exit on an Entered pattern: "failed", "complete", "active", or
\* "TypeError" when a comparison meets a stop level that is None.
ExitOutcome(context, current_high, current_low) ==
    IF context.direction = "bullish"
    THEN IF context.stop_level = <<>> THEN "TypeError"
         ELSE IF current_low <= context.stop_level[1] THEN "failed"
         ELSE IF context.targets # <<>> /\ current_high >= context.targets[1] THEN "complete"
         ELSE "active"
    ELSE IF context.direction = "bearish"
    THEN IF context.stop_level = <<>> THEN "TypeError"
         ELSE IF current_high >= context.stop_level[1] THEN "failed"
         ELSE IF context.targets # <<>> /\ current_low <= context.targets[1] THEN "complete"
         ELSE "active"
    ELSE "active"

\* A set of prices as a list, ascending or descending.
RECURSIVE SortedList(_, _)
SortedList(values, ascending) ==
    IF values = {} THEN <<>>
    ELSE LET first == IF ascending
                      THEN CHOOSE v \in values : \A w \in values : v <= w
                      ELSE CHOOSE v \in values : \A w \in values : v >= w
         IN  <<first>> \o SortedList(values \ {first}, ascending)

\* PivotDetector.get_magnitude_targets over the values of the untaken pivots.
GetMagnitudeTargets(current_price, pivot_values, direction) ==
    IF direction = "long"
    THEN SortedList({v \in pivot_values : v > current_price}, TRUE)
    ELSE SortedList({v \in pivot_values : v < current_price}, FALSE)

PsFrame == UNCHANGED <<clVars, ddVars, csVars, trVars, dtVars, gnVars,
                       pvVars, phVars, rmVars>>

\* PatternStateMachine(InsideBarTracker()) after construction.
PsInit ==
    /\ patterns = <<>>
    /\ pattern_counter = 0
    /\ inside_bars = <<>>
    /\ ClIdle /\ DdIdle /\ CsIdle /\ TrIdle /\ DtIdle /\ GnIdle
    /\ PvIdle /\ PhIdle /\ RmIdle

\* start_pattern returns the new pattern's id, pattern_counter before the call.
start_pattern(pattern_type, first_bar) ==
    /\ pattern_counter \in PsIds
    /\ BarsTotal(DOMAIN patterns) < PsMaxBarsTotal
    /\ patterns' = DictPut(patterns, pattern_counter,
                           [state |-> SCANNING, context |-> NewContext(pattern_type, first_bar)])
    /\ pattern_counter' = pattern_counter + 1
    /\ UNCHANGED inside_bars
    /\ PsFrame

\* What update_pattern returns: None for an unknown id, else the new state.
update_pattern_ret(pattern_id, new_bar, bar_high, bar_low) ==
    IF pattern_id \notin DOMAIN patterns THEN None
    ELSE UpdateResult(patterns[pattern_id].state, patterns[pattern_id].context,
                      inside_bars, new_bar, bar_high, bar_low).state

update_pattern(pattern_id, new_bar, bar_high, bar_low) ==
    /\ IF pattern_id \notin DOMAIN patterns
       THEN UNCHANGED <<patterns, inside_bars>>
       ELSE /\ Len(patterns[pattern_id].context.bars_seen) < PsMaxBarsSeen
            /\ BarsTotal(DOMAIN patterns) < PsMaxBarsTotal
            /\ LET r == UpdateResult(patterns[pattern_id].state, patterns[pattern_id].context,
                                     inside_bars, new_bar, bar_high, bar_low)
               IN  /\ patterns' = [patterns EXCEPT ![pattern_id] =
                                      [state |-> r.state, context |-> r.context]]
                   /\ inside_bars' = r.tracker
    /\ UNCHANGED pattern_counter
    /\ PsFrame

\* What check_trigger returns ("True" / "False") or raises ("TypeError").
check_trigger_ret(pattern_id, current_high, current_low) ==
    IF pattern_id \notin DOMAIN patterns THEN "False"
    ELSE IF patterns[pattern_id].state # TRIGGERED THEN "False"
    ELSE TriggerOutcome(patterns[pattern_id].context, current_high, current_low)

check_trigger(pattern_id, current_high, current_low) ==
    /\ IF check_trigger_ret(pattern_id, current_high, current_low) = "True"
       THEN patterns' = [patterns EXCEPT
                            ![pattern_id].state = IN_FORCE,
                            ![pattern_id].context.trigger_time = <<"now">>]
       ELSE UNCHANGED patterns
    /\ UNCHANGED <<pattern_counter, inside_bars>>
    /\ PsFrame

\* What enter_trade returns.
enter_trade_ret(pattern_id, entry_price) ==
    IF pattern_id \notin DOMAIN patterns THEN "False"
    ELSE IF patterns[pattern_id].state = IN_FORCE THEN "True"
    ELSE "False"

enter_trade(pattern_id, entry_price) ==
    /\ IF enter_trade_ret(pattern_id, entry_price) = "True"
       THEN patterns' = [patterns EXCEPT
                            ![pattern_id].state = ENTERED,
                            ![pattern_id].context.entry_price = <<entry_price>>,
                            ![pattern_id].context.entry_time = <<"now">>]
       ELSE UNCHANGED patterns
    /\ UNCHANGED <<pattern_counter, inside_bars>>
    /\ PsFrame

\* What check_exit returns ("unknown", "not_entered", "failed", "complete",
\* "active") or raises ("TypeError").
check_exit_ret(pattern_id, current_high, current_low) ==
    IF pattern_id \notin DOMAIN patterns THEN "unknown"
    ELSE IF patterns[pattern_id].state # ENTERED THEN "not_entered"
    ELSE ExitOutcome(patterns[pattern_id].context, current_high, current_low)

check_exit(pattern_id, current_high, current_low) ==
    /\ LET out == check_exit_ret(pattern_id, current_high, current_low)
       IN  IF out = "failed"
           THEN patterns' = [patterns EXCEPT ![pattern_id].state = FAILED]
           ELSE IF out = "complete"
           THEN patterns' = [patterns EXCEPT ![pattern_id].state = COMPLETE]
           ELSE UNCHANGED patterns
    /\ UNCHANGED <<pattern_counter, inside_bars>>
    /\ PsFrame

\* The caller of the machine, after check_trigger returned True: it takes
\* the context (get_pattern_context) and assigns context.targets from the
\* untaken pivots in the trade's direction.
set_targets(pattern_id, pivot_values) ==
    /\ pattern_id \in DOMAIN patterns
    /\ patterns[pattern_id].state = IN_FORCE
    /\ patterns[pattern_id].context.entry_trigger # <<>>
    /\ LET context == patterns[pattern_id].context
           direction == IF context.direction = "bullish" THEN "long" ELSE "short"
       IN  patterns' = [patterns EXCEPT ![pattern_id].context.targets =
                           GetMagnitudeTargets(context.entry_trigger[1], pivot_values, direction)]
    /\ UNCHANGED <<pattern_counter, inside_bars>>
    /\ PsFrame

\* The bars a call is made with. A call that returns before it reads its
\* bar takes the same step whatever the bar, so one bar stands for all.
PsOneBar == [high |-> 1, low |-> 1]
UpdateBars(pattern_id, new_bar) ==
    IF /\ pattern_id \in DOMAIN patterns
       /\ patterns[pattern_id].context.pattern_type = "2-1-2"
       /\ Len(patterns[pattern_id].context.bars_seen) = 1
       /\ new_bar = 1
    THEN PsBars ELSE {PsOneBar}
TriggerBars(pattern_id) ==
    IF pattern_id \in DOMAIN patterns /\ patterns[pattern_id].state = TRIGGERED
    THEN PsBars ELSE {PsOneBar}
ExitBars(pattern_id) ==
    IF pattern_id \in DOMAIN patterns /\ patterns[pattern_id].state = ENTERED
    THEN PsBars ELSE {PsOneBar}
\* The pivots a call of set_targets is made with: get_magnitude_targets drops
\* the pivots that are not beyond the entry trigger, so the sets of pivots
\* beyond it stand for all sets.
PivotSets(pattern_id) ==
    IF /\ pattern_id \in DOMAIN patterns
       /\ patterns[pattern_id].context.entry_trigger # <<>>
    THEN LET context == patterns[pattern_id].context
         IN  SUBSET {v \in PsPivotValues :
                        IF context.direction = "bullish"
                        THEN v > context.entry_trigger[1]
                        ELSE v < context.entry_trigger[1]}
    ELSE {{}}

PsNext ==
    \/ \E t \in PsPatternTypes, c \in PsCodes : start_pattern(t, c)
    \/ \E id \in PsIds, c \in PsCodes : \E b \in UpdateBars(id, c) : update_pattern(id, c, b.high, b.low)
    \/ \E id \in PsIds : \E b \in TriggerBars(id) : check_trigger(id, b.high, b.low)
    \/ \E id \in PsIds, p \in PsFills : enter_trade(id, p)
    \/ \E id \in PsIds : \E b \in ExitBars(id) : check_exit(id, b.high, b.low)
    \/ \E id \in PsIds : \E pv \in PivotSets(id) : set_targets(id, pv)

SpecLifecycle == PsInit /\ [][PsNext]_vars

\* The single steps of the lifecycle.
PsChain ==
    {<<SCANNING, PENDING>>, <<PENDING, TRIGGERED>>, <<TRIGGERED, IN_FORCE>>,
     <<IN_FORCE, ENTERED>>, <<ENTERED, COMPLETE>>, <<ENTERED, FAILED>>}

\* C6: every change of a tracked pattern's state is one step along
\* Scanning -> Pending -> Triggered -> InForce -> Entered -> {Complete,
\* Failed}: no state is skipped, none is re-entered, and Complete and Failed
\* are never left; a new pattern starts in Scanning.
C6_LifecycleOrder ==
    [][/\ \A id \in DOMAIN patterns :
            patterns'[id].state # patterns[id].state =>
                <<patterns[id].state, patterns'[id].state>> \in PsChain
       /\ \A id \in (DOMAIN patterns') \ (DOMAIN patterns) : patterns'[id].state = SCANNING
      ]_vars

\* C7: an operation applied to a pattern that is not in the state it applies
\* to, or to an unknown id, returns a negative result and leaves the state
\* and the context of every tracked pattern unchanged.
C7_OutOfStateIsNoOp ==
    [][\A id \in PsIds :
        LET unknown == id \notin DOMAIN patterns
            st == patterns[id].state
        IN  /\ \A b \in PsBars :
                (check_trigger(id, b.high, b.low) /\ (unknown \/ st # TRIGGERED)) =>
                    (patterns' = patterns /\ check_trigger_ret(id, b.high, b.low) = "False")
            /\ \A p \in PsFills :
                (enter_trade(id, p) /\ (unknown \/ st # IN_FORCE)) =>
                    (patterns' = patterns /\ enter_trade_ret(id, p) = "False")
            /\ \A b \in PsBars :
                (check_exit(id, b.high, b.low) /\ (unknown \/ st # ENTERED)) =>
                    (patterns' = patterns
                     /\ check_exit_ret(id, b.high, b.low) \in {"unknown", "not_entered"})
            /\ \A c \in PsCodes, b \in PsBars :
                (update_pattern(id, c, b.high, b.low)
                 /\ (unknown \/ st \in {TRIGGERED, IN_FORCE, ENTERED, COMPLETE, FAILED})) =>
                    patterns' = patterns
      ]_vars

\* C8: a pattern in state Triggered has seen directional, Inside, directional;
\* its direction is bullish or bearish; and its trigger and stop are set from
\* its inside bar: high + buffer and low when bullish, low - buffer and high
\* when bearish.
C8_TriggeredIsComplete ==
    \A id \in DOMAIN patterns :
        patterns[id].state = TRIGGERED =>
            LET c == patterns[id].context
            IN  /\ Len(c.bars_seen) >= 3
                /\ c.bars_seen[1] \in {2, -2}
                /\ c.bars_seen[2] = 1
                /\ c.bars_seen[3] \in {2, -2}
                /\ c.direction \in {"bullish", "bearish"}
                /\ c.own_inside_bar # <<>>
                /\ c.direction = "bullish" =>
                      /\ c.entry_trigger = <<c.own_inside_bar[1].high + TRACKER_BUFFER>>
                      /\ c.stop_level = <<c.own_inside_bar[1].low>>
                /\ c.direction = "bearish" =>
                      /\ c.entry_trigger = <<c.own_inside_bar[1].low - TRACKER_BUFFER>>
                      /\ c.stop_level = <<c.own_inside_bar[1].high>>

\* The target of the list nearest to the entry trigger.
NearestTarget(c) ==
    CHOOSE t \in {c.targets[k] : k \in 1..Len(c.targets)} :
        \A k \in 1..Len(c.targets) :
            Abs(t - c.entry_trigger[1]) <= Abs(c.targets[k] - c.entry_trigger[1])

StopReached(c, b) ==
    \/ c.direction = "bullish" /\ b.low <= c.stop_level[1]
    \/ c.direction = "bearish" /\ b.high >= c.stop_level[1]

TargetReached(c, b) ==
    /\ c.targets # <<>>
    /\ \/ c.direction = "bullish" /\ b.high >= NearestTarget(c)
       \/ c.direction = "bearish" /\ b.low <= NearestTarget(c)

\* check_exit(pattern_id, bar) leaves the pattern in the given state.
ExitLeadsTo(pattern_id, b, state) ==
    ENABLED (check_exit(pattern_id, b.high, b.low) /\ patterns'[pattern_id].state = state)

TrMaxBase == 2

\* trigger_tolerance = 0.01, in cents.
TRIGGER_TOLERANCE == 1
\* pd.Timedelta(hours=1), in ticks.
TR_HOUR == 2

TrTimeframes == {"1H", "1D"}
\* The distance between two bars of the parent series, in ticks.
ParentSpan(timeframe) == IF timeframe = "1H" THEN TR_HOUR ELSE 24 * TR_HOUR

TrParentPrices == {2, 3}
TrBasePrices == 1..4
TrPatternTypes == {"2-1-2", "2-2-2"}
\* A parent series of two bars, at timestamps 0 and ParentSpan.
TrParentBars(timeframe) ==
    {s \in [1..2 -> [ts : {0, ParentSpan(timeframe)}, High : TrParentPrices, Low : TrParentPrices]] :
        \A k \in 1..2 : s[k].ts = (k - 1) * ParentSpan(timeframe) /\ s[k].Low <= s[k].High}
\* The finer bars lie around the second parent bar: half an hour before it,
\* at its start, half an hour and one hour after its start.
TrBaseTimes(timeframe) == {ParentSpan(timeframe) + d : d \in {-1, 0, 1, TR_HOUR}}
TrBaseBars(timeframe) ==
    {b \in [ts : TrBaseTimes(timeframe), High : TrBasePrices, Low : TrBasePrices] : b.Low <= b.High}
\* The finer series, in timestamp order.
TrBaseSeries(timeframe) ==
    {s \in UNION {[1..n -> TrBaseBars(timeframe)] : n \in 0..TrMaxBase} :
        \A k \in 1..(Len(s) - 1) : s[k].ts < s[k + 1].ts}

\* The pattern types the refiner handles.
TrRefinedTypes == {"2-1-2", "3-1-2", "1-2-2"}

\* Plausible bug: the window starts after the parent bar's timestamp.
BaseBarsMaskAfterStart(ts, current_bar_timestamp) ==
    ts > current_bar_timestamp /\ ts < current_bar_timestamp + TR_HOUR

\* base_bars_mask: the finer bars within the current parent bar.
BaseBarsMask(ts, current_bar_timestamp) ==
    ts >= current_bar_timestamp /\ ts < current_bar_timestamp + TR_HOUR

\* The 1-based positions in the finer series that the mask selects, in order.
RECURSIVE MaskedPositions(_, _, _)
MaskedPositions(series, k, current_bar_timestamp) ==
    IF k > Len(series) THEN <<>>
    ELSE (IF BaseBarsMask(series[k].ts, current_bar_timestamp) THEN <<k>> ELSE <<>>)
         \o MaskedPositions(series, k + 1, current_bar_timestamp)

\* What one finer bar makes the loop do: "long", "short" or "none".
TriggerOfBar(bar, inside_high, inside_low) ==
    IF bar.High >= inside_high + TRIGGER_TOLERANCE THEN "long"
    ELSE IF bar.Low <= inside_low - TRIGGER_TOLERANCE THEN "short"
    ELSE "none"

\* TriggerEvent(...) for the finer bar at position pos of the finer series.
TriggerEvent(bar, pos, direction, pattern_type, timeframe, inside_high, inside_low) ==
    [timestamp |-> bar.ts,
     parent_timeframe |-> timeframe,
     pattern |-> <<pattern_type, IF direction = "long" THEN "UP" ELSE "DOWN">>,
     trigger_price |-> IF direction = "long" THEN inside_high + TRIGGER_TOLERANCE
                       ELSE inside_low - TRIGGER_TOLERANCE,
     trigger_direction |-> direction,
     inside_bar_high |-> inside_high,
     inside_bar_low |-> inside_low,
     stop_level |-> IF direction = "long" THEN inside_low ELSE inside_high,
     base_bar_index |-> pos - 1]

TrFrame == UNCHANGED <<clVars, ddVars, csVars, psVars, dtVars, gnVars,
                       pvVars, phVars, rmVars>>

\* One call of detect_triggers_in_pattern, at its entry.
TrInit ==
    /\ tr_timeframe \in TrTimeframes
    /\ tr_parent \in {<<>>} \cup {<<s>> : s \in TrParentBars(tr_timeframe)}
    /\ tr_base \in {<<>>} \cup {<<s>> : s \in TrBaseSeries(tr_timeframe)}
    /\ tr_idx \in 0..2
    /\ tr_type \in TrPatternTypes
    /\ tr_i = 0
    /\ triggers = <<>>
    /\ tr_pc = "start"
    /\ ClIdle /\ DdIdle /\ CsIdle /\ PsIdle /\ DtIdle /\ GnIdle
    /\ PvIdle /\ PhIdle /\ RmIdle

\* The call up to the loop: every early return, else the loop starts.
TrStart ==
    /\ tr_pc = "start"
    /\ IF tr_parent = <<>> \/ tr_idx >= Len(tr_parent[1]) THEN tr_pc' = "done" /\ UNCHANGED tr_i
       ELSE IF tr_base = <<>> THEN tr_pc' = "done" /\ UNCHANGED tr_i
       ELSE IF tr_type \notin TrRefinedTypes THEN tr_pc' = "done" /\ UNCHANGED tr_i
       ELSE IF tr_idx < 1 THEN tr_pc' = "done" /\ UNCHANGED tr_i
       ELSE tr_pc' = "scan" /\ tr_i' = 1
    /\ UNCHANGED <<tr_timeframe, tr_parent, tr_base, tr_idx, tr_type, triggers>>
    /\ TrFrame

\* One iteration of the loop over base_bars, or its end.
TrScan ==
    /\ tr_pc = "scan"
    /\ LET inside_bar == tr_parent[1][tr_idx]
           current_bar_timestamp == tr_parent[1][tr_idx + 1].ts
           positions == MaskedPositions(tr_base[1], 1, current_bar_timestamp)
       IN  IF tr_i > Len(positions)
           THEN tr_pc' = "done" /\ UNCHANGED <<tr_i, triggers>>
           ELSE LET bar == tr_base[1][positions[tr_i]]
                    direction == TriggerOfBar(bar, inside_bar.High, inside_bar.Low)
                IN  IF direction = "none"
                    THEN tr_i' = tr_i + 1 /\ UNCHANGED <<tr_pc, triggers>>
                    ELSE /\ triggers' = Append(triggers,
                                TriggerEvent(bar, positions[tr_i], direction, tr_type,
                                             tr_timeframe, inside_bar.High, inside_bar.Low))
                         /\ tr_pc' = "done"
                         /\ UNCHANGED tr_i
    /\ UNCHANGED <<tr_timeframe, tr_parent, tr_base, tr_idx, tr_type>>
    /\ TrFrame

\* return triggers
TrReturn ==
    /\ tr_pc = "done"
    /\ tr_pc' = "returned"
    /\ UNCHANGED <<tr_timeframe, tr_parent, tr_base, tr_idx, tr_type, tr_i, triggers>>
    /\ TrFrame

TrNext == TrStart \/ TrScan \/ TrReturn

SpecTrigger == TrInit /\ [][TrNext]_vars

\* The call is about a pattern of the parent series: both series are there
\* and the pattern's trigger bar and inside bar are bars of the parent series.
TrPatternGiven ==
    tr_parent # <<>> /\ tr_base # <<>> /\ tr_idx >= 1 /\ tr_idx < Len(tr_parent[1])

\* The positions of the finer bars inside the span of the coarse trigger bar
\* that reach inside-high + tolerance or inside-low - tolerance.
TrQualifying ==
    LET inside_bar == tr_parent[1][tr_idx]
        start == tr_parent[1][tr_idx + 1].ts
    IN  {k \in 1..Len(tr_base[1]) :
            /\ tr_base[1][k].ts >= start
            /\ tr_base[1][k].ts < start + ParentSpan(tr_timeframe)
            /\ \/ tr_base[1][k].High >= inside_bar.High + TRIGGER_TOLERANCE
               \/ tr_base[1][k].Low <= inside_bar.Low - TRIGGER_TOLERANCE}

DtMaxCalls == 2

\* The prices, in cents, of the enumerated bars.
DtPrices == {1, 2, 3, 4}
\* The enumerated candles: green (open at the low, close at the high) or red.
DtCandles ==
    {b \in [open : DtPrices, high : DtPrices, low : DtPrices, close : DtPrices] :
        /\ b.low <= b.high
        /\ \/ b.open = b.low /\ b.close = b.high
           \/ b.open = b.high /\ b.close = b.low}
\* The volume columns: none, or a volume that grows by 100 every bar.
DtVolumeColumns == {"absent", "rising"}
DtWithVolume(candles, column) ==
    [k \in 1..Len(candles) |->
        [open |-> candles[k].open, high |-> candles[k].high,
         low |-> candles[k].low, close |-> candles[k].close,
         volume |-> IF column = "absent" THEN <<>> ELSE <<100 * k>>]]
\* The lengths of the series handed to the 2-1-2 detector.
Dt212Lengths == {2, 3, 4}
Dt212Series ==
    {DtWithVolume(c, v) : c \in UNION {[1..n -> DtCandles] : n \in Dt212Lengths},
                          v \in DtVolumeColumns}
\* (O100,H100,L95,C100), (O100,H103,L97,C102), (O102,H101,L98,C100),
\* (O100,H105,L96,C104), without a volume column.
ExampleCandles ==
    <<[open |-> 10000, high |-> 10000, low |-> 9500, close |-> 10000, volume |-> <<>>],
      [open |-> 10000, high |-> 10300, low |-> 9700, close |-> 10200, volume |-> <<>>],
      [open |-> 10200, high |-> 10100, low |-> 9800, close |-> 10000, volume |-> <<>>],
      [open |-> 10000, high |-> 10500, low |-> 9600, close |-> 10400, volume |-> <<>>]>>

\* df.iloc[idx], idx counted from 0 as in the code.
Iloc(series, idx) == series[idx + 1]

\* The loop of classify_bars from bar i on.
RECURSIVE ClassifyFrom(_, _, _, _, _)
ClassifyFrom(bars, i, gov_high, gov_low, codes) ==
    IF i > Len(bars) THEN codes
    ELSE LET code == ClassifyBar(bars[i].high, bars[i].low, gov_high, gov_low)
             gov == GoverningAfter(code, bars[i].high, bars[i].low, gov_high, gov_low)
         IN  ClassifyFrom(bars, i + 1, gov[1], gov[2], Append(codes, code))

\* STRATAnalyzer.classify_bars as a function of the series.
classify_bars(bars) ==
    IF Len(bars) < 2 THEN <<>>
    ELSE ClassifyFrom(bars, 2, bars[1].high, bars[1].low, <<UNCLASSIFIED_MARKER>>)

\* pattern_weights[PatternType.TWO_ONE_TWO] and [PatternType.THREE_ONE_TWO],
\* in hundredths.
WEIGHT_TWO_ONE_TWO == 85
WEIGHT_THREE_ONE_TWO == 90
\* The cap of min(0.95, ...), in hundredths.
CONFIDENCE_CAP == 95

Min(a, b) == IF a < b THEN a ELSE b

\* Plausible bug: the sum of the weight and the adjustments is not capped.
calculate_212_confidence_uncapped(bar1, bar2, bar3, direction) ==
    LET inside_range == bar2.high - bar2.low
        outside_range == bar1.high - bar1.low
        tight == IF outside_range > 0 /\ 2 * inside_range < outside_range THEN 5 ELSE 0
        breakout == IF direction = "BULLISH" THEN bar3.high - bar1.high
                    ELSE bar1.low - bar3.low
        strong == IF 10 * breakout > outside_range THEN 5 ELSE 0
        volume == IF /\ bar3.volume # <<>> /\ bar1.volume # <<>>
                     /\ 10 * bar3.volume[1] > 12 * bar1.volume[1]
                  THEN 3 ELSE 0
    IN  WEIGHT_TWO_ONE_TWO + tight + strong + volume

\* _calculate_212_confidence, in hundredths. The quotients are compared
\* without dividing: inside_ratio < 0.5 under outside_range > 0, and
\* breakout_strength > 0.1, where a float64 division by a zero range gives
\* inf for a positive numerator and nan or -inf otherwise.
calculate_212_confidence(bar1, bar2, bar3, direction) ==
    LET inside_range == bar2.high - bar2.low
        outside_range == bar1.high - bar1.low
        tight == IF outside_range > 0 /\ 2 * inside_range < outside_range THEN 5 ELSE 0
        breakout == IF direction = "BULLISH" THEN bar3.high - bar1.high
                    ELSE bar1.low - bar3.low
        strong == IF 10 * breakout > outside_range THEN 5 ELSE 0
        volume == IF /\ bar3.volume # <<>> /\ bar1.volume # <<>>
                     /\ 10 * bar3.volume[1] > 12 * bar1.volume[1]
                  THEN 3 ELSE 0
    IN  Min(CONFIDENCE_CAP, WEIGHT_TWO_ONE_TWO + tight + strong + volume)

\* _calculate_312_confidence, in hundredths: inside_range / outside_range
\* < 0.6 under outside_range > 0, where outside_range is the trigger bar's.
calculate_312_confidence(bar1, bar2, bar3, direction) ==
    LET inside_range == bar2.high - bar2.low
        outside_range == bar3.high - bar3.low
        contained == IF outside_range > 0 /\ 10 * inside_range < 6 * outside_range
                     THEN 3 ELSE 0
        volume == IF /\ bar3.volume # <<>> /\ bar1.volume # <<>>
                     /\ 10 * bar3.volume[1] > 11 * bar1.volume[1]
                  THEN 2 ELSE 0
    IN  Min(CONFIDENCE_CAP, WEIGHT_THREE_ONE_TWO + contained + volume)

\* reward / risk if risk > 0 else 0, kept as the pair <<numerator, denominator>>.
RiskRewardRatio(entry_price, stop_loss, target_price) ==
    LET risk == Abs(entry_price - stop_loss)
        reward == Abs(target_price - entry_price)
    IN  IF risk > 0 THEN <<reward, risk>> ELSE <<0, 1>>

\* The STRATSignal built by _analyze_212_signal.
Signal212(direction, bar1, bar2, bar3, trigger_index) ==
    LET trigger_price == IF direction = "BULLISH" THEN bar2.high ELSE bar2.low
        entry_price == bar3.open
        stop_loss == IF direction = "BULLISH" THEN bar2.low ELSE bar2.high
        pattern_height == bar1.high - bar1.low
        target_price == IF direction = "BULLISH" THEN trigger_price + pattern_height
                        ELSE trigger_price - pattern_height
    IN  [pattern |-> "2-1-2",
         direction |-> direction,
         confidence |-> calculate_212_confidence(bar1, bar2, bar3, direction),
         entry_price |-> entry_price,
         trigger_price |-> trigger_price,
         stop_loss |-> stop_loss,
         target_price |-> target_price,
         timestamp |-> trigger_index,
         trigger_bar_index |-> trigger_index,
         risk_reward_ratio |-> RiskRewardRatio(entry_price, stop_loss, target_price)]

\* _analyze_212_signal: <<>> for None, else <<the signal>>.
analyze_212_signal(bars, trigger_index) ==
    LET bar1_idx == trigger_index - 2
        bar1 == Iloc(bars, bar1_idx)
        bar2 == Iloc(bars, trigger_index - 1)
        bar3 == Iloc(bars, trigger_index)
    IN  IF bar1_idx > 0
        THEN LET bar0 == Iloc(bars, bar1_idx - 1)
                 bar1_bullish == bar1.high > bar0.high /\ bar1.low >= bar0.low
                 bar1_bearish == bar1.low < bar0.low /\ bar1.high <= bar0.high
             IN  IF bar1_bullish /\ bar3.high > bar2.high
                 THEN <<Signal212("BULLISH", bar1, bar2, bar3, trigger_index)>>
                 ELSE IF bar1_bearish /\ bar3.low < bar2.low
                 THEN <<Signal212("BEARISH", bar1, bar2, bar3, trigger_index)>>
                 ELSE <<>>
        ELSE <<>>

\* The STRATSignal built by _analyze_312_signal.
Signal312(direction, bar1, bar2, bar3, trigger_index) ==
    LET trigger_price == IF direction = "BULLISH" THEN bar2.high ELSE bar2.low
        entry_price == bar3.open
        stop_loss == IF direction = "BULLISH" THEN bar1.low ELSE bar1.high
        pattern_height == bar1.high - bar1.low
        target_price == IF direction = "BULLISH" THEN trigger_price + pattern_height
                        ELSE trigger_price - pattern_height
    IN  [pattern |-> "3-1-2",
         direction |-> direction,
         confidence |-> calculate_312_confidence(bar1, bar2, bar3, direction),
         entry_price |-> entry_price,
         trigger_price |-> trigger_price,
         stop_loss |-> stop_loss,
         target_price |-> target_price,
         timestamp |-> trigger_index,
         trigger_bar_index |-> trigger_index,
         risk_reward_ratio |-> RiskRewardRatio(entry_price, stop_loss, target_price)]

\* _analyze_312_signal: <<>> for None, else <<the signal>>.
analyze_312_signal(bars, trigger_index) ==
    LET bar1 == Iloc(bars, trigger_index - 2)
        bar2 == Iloc(bars, trigger_index - 1)
        bar3 == Iloc(bars, trigger_index)
    IN  IF bar3.high > bar2.high /\ bar3.low >= bar2.low
        THEN <<Signal312("BULLISH", bar1, bar2, bar3, trigger_index)>>
        ELSE IF bar3.low < bar2.low /\ bar3.high <= bar2.high
        THEN <<Signal312("BEARISH", bar1, bar2, bar3, trigger_index)>>
        ELSE <<>>

\* A signal of the detectors with its prices in mills, as Fingerprint takes it.
InMills(signal) ==
    [signal EXCEPT !.entry_price = 10 * @, !.stop_loss = 10 * @, !.target_price = 10 * @]

\* _is_duplicate_pattern on a given deque: the value returned and the deque after.
is_duplicate_pattern(recent, signal) ==
    LET fingerprint == Fingerprint(InMills(signal))
    IN  IF \E k \in 1..Len(recent) : MatchesRecent(recent[k], fingerprint)
        THEN [ret |-> TRUE, recent |-> recent]
        ELSE [ret |-> FALSE, recent |-> DequeAppend(recent, fingerprint)]

\* Plausible bug: an outside trigger bar is taken for an upward one.
Indices212OutsideAsUp(classes, first, last) ==
    SelectSeq([k \in 1..(Len(classes) - 2) |-> k + 1],
              LAMBDA idx : /\ Iloc(classes, idx - 2) = first
                           /\ Iloc(classes, idx - 1) = 1
                           /\ Iloc(classes, idx) \in {last, 3})

\* np.where(mask)[0] + 2 for the mask (bar_1 == first) & (bar_2 == 1) &
\* (bar_3 == last): the trigger indices in ascending order.
Indices212(classes, first, last) ==
    SelectSeq([k \in 1..(Len(classes) - 2) |-> k + 1],
              LAMBDA idx : /\ Iloc(classes, idx - 2) = first
                           /\ Iloc(classes, idx - 1) = 1
                           /\ Iloc(classes, idx) = last)

\* The four loops of detect_212_pattern over the indices still to process.
RECURSIVE Process212(_, _, _, _)
Process212(bars, indices, recent, signals) ==
    IF indices = <<>> THEN [recent |-> recent, signals |-> signals]
    ELSE LET signal == analyze_212_signal(bars, Head(indices))
         IN  IF signal = <<>> THEN Process212(bars, Tail(indices), recent, signals)
             ELSE LET check == is_duplicate_pattern(recent, signal[1])
                  IN  Process212(bars, Tail(indices), check.recent,
                                 IF check.ret THEN signals ELSE Append(signals, signal[1]))

\* detect_212_pattern(df, strat_classes) on an analyzer whose deque is `recent`.
detect_212_pattern_ret(bars, classes, recent) ==
    IF Len(classes) < 3 THEN [recent |-> recent, signals |-> <<>>]
    ELSE Process212(bars,
                    Indices212(classes, 2, 2) \o Indices212(classes, -2, 2)
                        \o Indices212(classes, -2, -2) \o Indices212(classes, 2, -2),
                    recent, <<>>)

\* The two loops of detect_312_pattern over the indices still to process.
RECURSIVE Process312(_, _, _, _)
Process312(bars, indices, recent, signals) ==
    IF indices = <<>> THEN [recent |-> recent, signals |-> signals]
    ELSE LET signal == analyze_312_signal(bars, Head(indices))
         IN  IF signal = <<>> THEN Process312(bars, Tail(indices), recent, signals)
             ELSE LET check == is_duplicate_pattern(recent, signal[1])
                  IN  Process312(bars, Tail(indices), check.recent,
                                 IF check.ret THEN signals ELSE Append(signals, signal[1]))

\* np.where(mask)[0] + 2 for the mask (bar_1 == 3) & (bar_2 == 1) & (bar_3 == last).
Indices312(classes, last) ==
    SelectSeq([k \in 1..(Len(classes) - 2) |-> k + 1],
              LAMBDA idx : /\ Iloc(classes, idx - 2) = 3
                           /\ Iloc(classes, idx - 1) = 1
                           /\ Iloc(classes, idx) = last)

\* detect_312_pattern(df, strat_classes) on an analyzer whose deque is `recent`.
detect_312_pattern_ret(bars, classes, recent) ==
    IF Len(classes) < 3 THEN [recent |-> recent, signals |-> <<>>]
    ELSE Process312(bars, Indices312(classes, 2) \o Indices312(classes, -2), recent, <<>>)

DtFrame == UNCHANGED <<clVars, dd_last, dd_ret, dd_n, csVars, psVars, trVars, gnVars,
                       pvVars, phVars, rmVars>>

Dt212Init ==
    /\ dt_df \in Dt212Series \cup {ExampleCandles}
    /\ dt_classes = <<>>
    /\ dt_detector = ""
    /\ dt_signals = <<>>
    /\ dt_calls = 0
    /\ dt_pc = "start"
    /\ ClIdle /\ DdIdle /\ CsIdle /\ PsIdle /\ TrIdle /\ GnIdle
    /\ PvIdle /\ PhIdle /\ RmIdle

\* strat_classes = analyzer.classify_bars(df)
DtClassify ==
    /\ dt_pc = "start"
    /\ dt_classes' = classify_bars(dt_df)
    /\ dt_pc' = "classified"
    /\ UNCHANGED <<dt_df, dt_detector, dt_signals, dt_calls, recent_patterns>>
    /\ DtFrame

\* One call of detect_212_pattern(df, strat_classes).
detect_212_pattern ==
    /\ dt_pc = "classified"
    /\ dt_calls < DtMaxCalls
    /\ LET result == detect_212_pattern_ret(dt_df, dt_classes, recent_patterns)
       IN  /\ dt_signals' = result.signals
           /\ recent_patterns' = result.recent
    /\ dt_detector' = "2-1-2"
    /\ dt_calls' = dt_calls + 1
    /\ UNCHANGED <<dt_df, dt_classes, dt_pc>>
    /\ DtFrame

\* One call of detect_312_pattern(df, strat_classes).
detect_312_pattern ==
    /\ dt_pc = "classified"
    /\ dt_calls < DtMaxCalls
    /\ LET result == detect_312_pattern_ret(dt_df, dt_classes, recent_patterns)
       IN  /\ dt_signals' = result.signals
           /\ recent_patterns' = result.recent
    /\ dt_detector' = "3-1-2"
    /\ dt_calls' = dt_calls + 1
    /\ UNCHANGED <<dt_df, dt_classes, dt_pc>>
    /\ DtFrame

Dt212Next == DtClassify \/ detect_212_pattern \/ detect_312_pattern

SpecDetect212 == Dt212Init /\ [][Dt212Next]_vars

ExampleGiven == dt_df = ExampleCandles /\ dt_detector = "2-1-2"

\* C12 as stated: for the four example bars, the classifier followed by the
\* 2-1-2 detector emits exactly one candidate: bullish, anchored at index 3,
\* with trigger price 101.01, stop price 98 and a positive risk/reward.
C12_ExampleCandidateAsStated ==
    (ExampleGiven /\ dt_calls = 1) =>
        /\ Len(dt_signals) = 1
        /\ dt_signals[1].direction = "BULLISH"
        /\ dt_signals[1].trigger_bar_index = 3
        /\ dt_signals[1].trigger_price = 10101
        /\ dt_signals[1].stop_loss = 9800
        /\ dt_signals[1].risk_reward_ratio[1] > 0

\* C12 amended: for the four example bars the classifier gives
\* [Unclassified, Up, Inside, Outside], no window of the series has the
\* 2-1-2 shape, and the 2-1-2 detector emits no candidate at all.
C12_ExampleEmitsNothing ==
    ExampleGiven =>
        /\ dt_classes = <<UNCLASSIFIED_MARKER, 2, 1, 3>>
        /\ dt_signals = <<>>
        /\ recent_patterns = <<>>

C12_Witness ==
    /\ dt_df = ExampleCandles
    /\ dt_calls = 1
    /\ dt_classes[4] = 3
    /\ dt_signals = <<>>

(***************************************************************************)
(* Signal generator: continuity scoring of one daily bar                   *)
(* Confidences are in hundredths.                                          *)
(***************************************************************************)

\* Bound: the number of hourly bars on the day.
GnMaxHourly == 2

\* The codes _classify_bars writes; 0 also stands for a bar with no
\* weekly or monthly bar mapped to it.
GnCodes == {0, 1, 2, -2, 3}
GnHourlySeries == UNION {[1..n -> GnCodes] : n \in 0..GnMaxHourly}

\* (series == code).sum()
CountOf(series, code) == Cardinality({k \in 1..Len(series) : series[k] = code})

\* The h1_class of the day: the dominant direction of its hourly bars.
DominantHourly(hourly_on_day) ==
    IF Len(hourly_on_day) > 0
    THEN LET h_bullish == CountOf(hourly_on_day, 2)
             h_bearish == CountOf(hourly_on_day, -2)
         IN  IF h_bullish > h_bearish THEN 2
             ELSE IF h_bearish > h_bullish THEN -2
             ELSE 0
    ELSE 0

\* Plausible bug: an outside bar is counted on the bullish side.
BullishCountWithOutside(row) == CountOf(row, 2) + CountOf(row, 3)

\* The counters of the loop over h1_class, d1_class, w1_class, m1_class.
BullishCount(row) == CountOf(row, 2)
BearishCount(row) == CountOf(row, -2)

\* The if/elif chain that sets direction and alignment_count.
Alignment(bullish_count, bearish_count) ==
    IF bullish_count > 0 /\ bearish_count = 0
    THEN [direction |-> "bullish", alignment_count |-> bullish_count]
    ELSE IF bearish_count > 0 /\ bullish_count = 0
    THEN [direction |-> "bearish", alignment_count |-> bearish_count]
    ELSE IF bullish_count > bearish_count
    THEN [direction |-> "bullish_mixed", alignment_count |-> bullish_count]
    ELSE IF bearish_count > bullish_count
    THEN [direction |-> "bearish_mixed", alignment_count |-> bearish_count]
    ELSE [direction |-> "neutral", alignment_count |-> 0]

\* The if/elif chain that sets confidence and continuity_type.
Tier(alignment_count) ==
    IF alignment_count = 4 THEN [confidence |-> 95, continuity_type |-> "Full"]
    ELSE IF alignment_count = 3 THEN [confidence |-> 80, continuity_type |-> "Partial"]
    ELSE IF alignment_count = 2 THEN [confidence |-> 50, continuity_type |-> "Minimal"]
    ELSE IF alignment_count = 1 THEN [confidence |-> 25, continuity_type |-> "Weak"]
    ELSE [confidence |-> 10, continuity_type |-> "None"]

\* The row _calculate_daily_tfc_scores writes for one daily bar.
ContinuityRow(hourly_on_day, d1_class, w1_class, m1_class) ==
    LET h1_class == DominantHourly(hourly_on_day)
        row == <<h1_class, d1_class, w1_class, m1_class>>
        alignment == Alignment(BullishCount(row), BearishCount(row))
        tier == Tier(alignment.alignment_count)
    IN  [h1_class |-> h1_class, d1_class |-> d1_class,
         w1_class |-> w1_class, m1_class |-> m1_class,
         direction |-> alignment.direction,
         alignment_count |-> alignment.alignment_count,
         confidence |-> tier.confidence,
         continuity_type |-> tier.continuity_type]

GnFrame == UNCHANGED <<clVars, ddVars, csVars, psVars, trVars, dtVars,
                       pvVars, phVars, rmVars>>

\* The generator's defaults: min_tfc_score=0.50, require_ftfc=False.
GnDefaults ==
    /\ gn_min_tfc_score = 50
    /\ gn_require_ftfc = FALSE

TfcInit ==
    /\ gn_hourly \in GnHourlySeries
    /\ gn_d1 \in GnCodes /\ gn_w1 \in GnCodes /\ gn_m1 \in GnCodes
    /\ gn_row = <<>>
    /\ GnDefaults
    /\ gn_pattern = <<>>
    /\ gn_signal = <<>>
    /\ gn_pc = "start"
    /\ ClIdle /\ DdIdle /\ CsIdle /\ PsIdle /\ TrIdle /\ DtIdle
    /\ PvIdle /\ PhIdle /\ RmIdle

\* _calculate_daily_tfc_scores, for the one daily bar.
calculate_daily_tfc_scores ==
    /\ gn_pc = "start"
    /\ gn_row' = <<ContinuityRow(gn_hourly, gn_d1, gn_w1, gn_m1)>>
    /\ gn_pc' = "scored"
    /\ UNCHANGED <<gn_hourly, gn_d1, gn_w1, gn_m1, gn_min_tfc_score, gn_require_ftfc,
                   gn_pattern, gn_signal>>
    /\ GnFrame

TfcNext == calculate_daily_tfc_scores

SpecContinuity == TfcInit /\ [][TfcNext]_vars

\* The timeframes of the row whose code is the given one.
TimeframesWith(row, code) ==
    {tf \in {"h1_class", "d1_class", "w1_class", "m1_class"} : row[tf] = code}

GnMaxPrice == 4

\* STRATSignalGenerator.TRIGGER_TOLERANCE = 0.01
GENERATOR_TRIGGER_TOLERANCE == 1
\* The continuity confidence of full alignment, required under require_ftfc.
FTFC_SCORE == 95

GnPrices == 1..GnMaxPrice
\* The pattern names _convert_analyzer_signal gives, each with a confidence
\* its detector can give.
GnKinds == {<<"2-1-2", 85>>, <<"2-1-2", 95>>, <<"3-1-2", 90>>, <<"2-2", 75>>}
\* The dictionaries _convert_analyzer_signal builds from a STRATSignal of
\* the analyzer: every analyzer_* entry is present.
GnPatterns ==
    {[type |-> kind[1],
      direction |-> direction,
      end_index |-> 3,
      inside_bar_idx |-> IF kind[1] = "2-2" THEN <<>> ELSE <<2>>,
      analyzer_trigger_price |-> <<trigger>>,
      analyzer_stop_price |-> <<stop>>,
      analyzer_target_price |-> <<target>>,
      analyzer_confidence |-> <<kind[2]>>] :
        kind \in GnKinds, direction \in {"long", "short"},
        trigger \in GnPrices, stop \in GnPrices, target \in GnPrices}
\* The daily series handed over with the pattern.
GnDailyData == ExampleCandles
\* The code combinations of the day the validated pattern ends on.
GnDayHourly == {<<>>, <<2>>, <<-2>>}
GnDayCodes == {2, -2, 1}

SetMax(S) == CHOOSE x \in S : \A y \in S : y <= x
SetMin(S) == CHOOSE x \in S : \A y \in S : x <= y

\* The price levels: from the analyzer when it gave all three, else from
\* the inside bar, else (2-2) from the trigger bar and the bars before it.
PriceLevels(pattern, data) ==
    LET idx == pattern.end_index
        long == pattern.direction = "long"
    IN  IF /\ pattern.analyzer_trigger_price # <<>>
           /\ pattern.analyzer_stop_price # <<>>
           /\ pattern.analyzer_target_price # <<>>
        THEN [trigger_price |-> IF long
                                THEN pattern.analyzer_trigger_price[1] + GENERATOR_TRIGGER_TOLERANCE
                                ELSE pattern.analyzer_trigger_price[1] - GENERATOR_TRIGGER_TOLERANCE,
              stop_price |-> pattern.analyzer_stop_price[1],
              target_price |-> pattern.analyzer_target_price[1]]
        ELSE IF pattern.inside_bar_idx # <<>>
        THEN LET inside == Iloc(data, pattern.inside_bar_idx[1])
             IN  IF long
                 THEN [trigger_price |-> inside.high + GENERATOR_TRIGGER_TOLERANCE,
                       stop_price |-> inside.low,
                       target_price |-> Iloc(data, idx - 2).high]
                 ELSE [trigger_price |-> inside.low - GENERATOR_TRIGGER_TOLERANCE,
                       stop_price |-> inside.high,
                       target_price |-> Iloc(data, idx - 2).low]
        ELSE LET current == Iloc(data, idx)
                 window_start == IF idx - 3 > 0 THEN idx - 3 ELSE 0
                 window == {Iloc(data, k) : k \in window_start..(idx - 1)}
             IN  IF long
                 THEN [trigger_price |-> current.high + GENERATOR_TRIGGER_TOLERANCE,
                       stop_price |-> current.low,
                       target_price |-> IF idx > 0 THEN SetMax({b.high : b \in window})
                                        ELSE current.high]
                 ELSE [trigger_price |-> current.low - GENERATOR_TRIGGER_TOLERANCE,
                       stop_price |-> current.high,
                       target_price |-> IF idx > 0 THEN SetMin({b.low : b \in window})
                                        ELSE current.low]

\* risk_reward = reward / risk if risk > 0 else 0
RiskReward(levels) ==
    LET risk == Abs(levels.trigger_price - levels.stop_price)
        reward == Abs(levels.target_price - levels.trigger_price)
    IN  IF risk > 0 THEN <<reward, risk>> ELSE <<0, 1>>

\* Plausible bug: the minimum is taken as 1:2.
BelowMinimumHalf(risk_reward) == 2 * risk_reward[1] < risk_reward[2]

\* risk_reward < 1.0
BelowMinimum(risk_reward) == risk_reward[1] < risk_reward[2]

\* pattern_bullish != tfc_bullish and tfc_alignment != 'mixed'
DirectionMismatch(direction, tfc_alignment) ==
    LET pattern_bullish == direction = "long"
        tfc_bullish == tfc_alignment \in {"bullish", "bullish_strong"}
    IN  pattern_bullish # tfc_bullish /\ tfc_alignment # "mixed"

\* confidence = min(base_confidence * rr_adjustment, 1.0), with
\* rr_adjustment = 0.7 + 0.3 * min(risk_reward / 3, 1) and base_confidence
\* = tfc_score * 0.6 + min(pattern_confidence, 1.0) * 0.4, or tfc_score alone.
SignalConfidence(tfc_score, pattern_confidence, risk_reward) ==
    LET reward == risk_reward[1]
        risk == risk_reward[2]
        \* rr_adjustment = (7 * risk + min(reward, 3 * risk)) / (10 * risk)
        adjustment == <<7 * risk + Min(reward, 3 * risk), 10 * risk>>
        \* base_confidence in thousandths
        base == IF pattern_confidence # <<>>
                THEN 6 * tfc_score + 4 * Min(pattern_confidence[1], 100)
                ELSE 10 * tfc_score
        product == <<base * adjustment[1], 1000 * adjustment[2]>>
    IN  IF product[1] > product[2] THEN <<1, 1>> ELSE product

\* _validate_and_create_signal: <<>> for None, else <<the signal>>. The
\* daily index carries a continuity row for every daily bar.
validate_and_create_signal_ret(pattern, data, tfc_row, min_tfc_score, require_ftfc) ==
    LET tfc_score == tfc_row.confidence
        tfc_alignment == tfc_row.direction
        levels == PriceLevels(pattern, data)
        risk_reward == RiskReward(levels)
    IN  IF tfc_score < min_tfc_score THEN <<>>
        ELSE IF require_ftfc /\ tfc_score < FTFC_SCORE THEN <<>>
        ELSE IF DirectionMismatch(pattern.direction, tfc_alignment) THEN <<>>
        ELSE IF BelowMinimum(risk_reward) THEN <<>>
        ELSE <<[pattern_type |-> pattern.type,
                direction |-> pattern.direction,
                trigger_price |-> levels.trigger_price,
                stop_price |-> levels.stop_price,
                target_price |-> levels.target_price,
                tfc_score |-> tfc_score,
                tfc_alignment |-> tfc_alignment,
                confidence |-> SignalConfidence(tfc_score, pattern.analyzer_confidence,
                                                risk_reward),
                risk_reward |-> risk_reward]>>

GnInit ==
    /\ gn_hourly \in GnDayHourly
    /\ gn_d1 \in GnDayCodes /\ gn_w1 \in GnDayCodes /\ gn_m1 \in GnDayCodes
    /\ gn_row = <<>>
    /\ gn_min_tfc_score \in {25, 50}
    /\ gn_require_ftfc \in BOOLEAN
    /\ gn_pattern = <<>>
    /\ gn_signal = <<>>
    /\ gn_pc = "start"
    /\ ClIdle /\ DdIdle /\ CsIdle /\ PsIdle /\ TrIdle /\ DtIdle
    /\ PvIdle /\ PhIdle /\ RmIdle

\* One call of _validate_and_create_signal(pattern, daily_data, continuity_df).
\* The call reads nothing an earlier call wrote, so one pattern of the list
\* is followed.
validate_and_create_signal(pattern) ==
    /\ gn_pc = "scored"
    /\ gn_pattern' = <<pattern>>
    /\ gn_signal' = validate_and_create_signal_ret(pattern, GnDailyData, gn_row[1],
                                                   gn_min_tfc_score, gn_require_ftfc)
    /\ gn_pc' = "validated"
    /\ UNCHANGED <<gn_hourly, gn_d1, gn_w1, gn_m1, gn_row, gn_min_tfc_score, gn_require_ftfc>>
    /\ GnFrame

GnNext ==
    \/ calculate_daily_tfc_scores
    \/ /\ gn_pc = "scored"
       /\ \E pattern \in GnPatterns : validate_and_create_signal(pattern)

SpecGenerator == GnInit /\ [][GnNext]_vars

\* The price levels the generator resolves for a pattern of the analyzer.
ResolvedRisk(pattern) ==
    Abs(pattern.analyzer_trigger_price[1]
        + (IF pattern.direction = "long" THEN 1 ELSE -1) * GENERATOR_TRIGGER_TOLERANCE
        - pattern.analyzer_stop_price[1])
ResolvedReward(pattern) ==
    Abs(pattern.analyzer_target_price[1]
        - (pattern.analyzer_trigger_price[1]
           + (IF pattern.direction = "long" THEN 1 ELSE -1) * GENERATOR_TRIGGER_TOLERANCE))

\* C14: every signal the generator emits has risk = |trigger - stop| > 0 and
\* |target - trigger| / |trigger - stop| >= 1, and a pattern whose resolved
\* levels give less than 1:1 yields no signal.
C14_MinimumRiskReward ==
    /\ gn_signal # <<>> =>
        LET signal == gn_signal[1]
            risk == Abs(signal.trigger_price - signal.stop_price)
            reward == Abs(signal.target_price - signal.trigger_price)
        IN  /\ risk > 0
            /\ reward >= risk
            /\ signal.risk_reward = <<reward, risk>>
    /\ (gn_pattern # <<>> /\ ResolvedReward(gn_pattern[1]) < ResolvedRisk(gn_pattern[1]))
            => gn_signal = <<>>

\* A long emitted at exactly 1:1, and the pattern validated was one below 1:1.
C14_Witness ==
    /\ gn_signal # <<>>
    /\ gn_signal[1].direction = "long"
    /\ gn_signal[1].risk_reward = <<1, 1>>
    /\ gn_signal[1].trigger_price = 3 /\ gn_signal[1].stop_price = 2

\* C15: the generator emits no signal whose continuity confidence is below
\* the configured minimum, a long only under bullish or bullish_mixed and a
\* short only under bearish or bearish_mixed.
C15_DirectionAgreesWithContinuity ==
    gn_signal # <<>> =>
        /\ gn_signal[1].tfc_score >= gn_min_tfc_score
        /\ gn_signal[1].direction = "long"
                => gn_signal[1].tfc_alignment \in {"bullish", "bullish_mixed"}
        /\ gn_signal[1].direction = "short"
                => gn_signal[1].tfc_alignment \in {"bearish", "bearish_mixed"}

\* C18: no candidate returned by a pattern detector has a zero risk distance
\* |entry - stop|.
C18_NoZeroRiskCandidate ==
    \A k \in 1..Len(dt_signals) :
        Abs(dt_signals[k].entry_price - dt_signals[k].stop_loss) > 0

(***************************************************************************)
(* The emitters of candidates and signals taken together: a run is either  *)
(* a run of the analyzer's detectors or a run of the generator.            *)
(***************************************************************************)

EmInit == Dt212Init \/ GnInit

EmNext == Dt212Next \/ GnNext

SpecEmitters == EmInit /\ [][EmNext]_vars

\* C17: every candidate returned by a detector and every signal returned by
\* the generator has a confidence within [0.10, 0.95], whatever the prices
\* and volumes of the bars, bars of zero range included.
C17_ConfidenceWithinBounds ==
    /\ \A k \in 1..Len(dt_signals) :
            /\ dt_signals[k].confidence >= 10
            /\ dt_signals[k].confidence <= 95
    /\ gn_signal # <<>> =>
            LET confidence == gn_signal[1].confidence
            IN  /\ 100 * confidence[1] >= 10 * confidence[2]
                /\ 100 * confidence[1] <= 95 * confidence[2]

\* A 2-1-2 candidate whose weight and three adjustments add up to 0.98.
C17_Witness ==
    /\ dt_detector = "2-1-2"
    /\ Len(dt_signals) = 1
    /\ dt_signals[1].confidence = 95
    /\ LET bar1 == Iloc(dt_df, dt_signals[1].trigger_bar_index - 2)
           bar2 == Iloc(dt_df, dt_signals[1].trigger_bar_index - 1)
           bar3 == Iloc(dt_df, dt_signals[1].trigger_bar_index)
       IN  /\ bar2.high = bar2.low
           /\ bar1.high > bar1.low
           /\ bar3.high > bar1.high
           /\ bar3.volume # <<>>

(***************************************************************************)
(* Rev-strat detector of the analyzer                                      *)
(***************************************************************************)

\* The entry offset of the rev-strat candidates: bar3 high + 0.01 / low - 0.01.
REV_STRAT_ENTRY_OFFSET == 1
\* The literal confidences of the rev-strat candidates, in hundredths.
REV_STRAT_CONFIDENCE_OUTSIDE == 95
REV_STRAT_CONFIDENCE_DIRECTIONAL == 85
\* len(df) < 5: the shortest series the detector scans.
REV_STRAT_MIN_BARS == 5
\* min(10, len(df) - 4): the longest lookback.
REV_STRAT_LOOKBACK == 10

\* The enumerated series: five bars; the open and close of the bars before
\* the last are never read by the detector, so those bars are green candles.
RsGreen == {b \in DtCandles : b.open = b.low}
RsSeries ==
    {DtWithVolume(c \o <<last>>, "absent") : c \in [1..4 -> RsGreen], last \in DtCandles}

\* The STRATSignal built for a rev-strat.
SignalRevStrat(direction, confidence, bar1, bar3, current_index) ==
    LET entry_price == IF direction = "BULLISH" THEN bar3.high + REV_STRAT_ENTRY_OFFSET
                       ELSE bar3.low - REV_STRAT_ENTRY_OFFSET
        stop_loss == IF direction = "BULLISH" THEN bar3.low ELSE bar3.high
        target_price == IF direction = "BULLISH" THEN bar1.high ELSE bar1.low
    IN  [pattern |-> "Rev STRAT",
         direction |-> direction,
         confidence |-> confidence,
         entry_price |-> entry_price,
         trigger_price |-> IF direction = "BULLISH" THEN bar3.high ELSE bar3.low,
         stop_loss |-> stop_loss,
         target_price |-> target_price,
         timestamp |-> current_index,
         trigger_bar_index |-> current_index,
         risk_reward_ratio |-> RiskRewardRatio(entry_price, stop_loss, target_price)]

\* _validate_rev_strat_continuity
validate_rev_strat_continuity(signal, bars, current_index) ==
    LET bar4 == Iloc(bars, current_index)
    IN  IF signal.direction = "BULLISH" THEN bar4.close > bar4.open
        ELSE bar4.close < bar4.open

\* Plausible bug: the shape is read off the bars alone (bar 3 beyond the
\* inside bar but short of the first bar's extreme, bar 4 beyond the inside
\* bar on the other side) and the first bar's code is not tested.
analyze_rev_strat_signal_by_bars(bars, classes, current_index) ==
    IF current_index < 3 THEN <<>>
    ELSE LET bar1 == Iloc(bars, current_index - 3)
             bar2 == Iloc(bars, current_index - 2)
             bar3 == Iloc(bars, current_index - 1)
             bar4 == Iloc(bars, current_index)
             class1 == Iloc(classes, current_index - 3)
             confidence == IF class1 = 3 THEN REV_STRAT_CONFIDENCE_OUTSIDE
                           ELSE REV_STRAT_CONFIDENCE_DIRECTIONAL
             signal ==
                IF /\ bar3.high > bar2.high /\ bar3.high < bar1.high /\ bar4.low < bar2.low
                THEN <<SignalRevStrat("BEARISH", confidence, bar1, bar3, current_index)>>
                ELSE IF /\ bar3.low < bar2.low /\ bar3.low > bar1.low /\ bar4.high > bar2.high
                THEN <<SignalRevStrat("BULLISH", confidence, bar1, bar3, current_index)>>
                ELSE <<>>
         IN  IF Iloc(classes, current_index - 2) # 1 THEN <<>>
             ELSE IF signal = <<>> THEN <<>>
             ELSE IF validate_rev_strat_continuity(signal[1], bars, current_index) THEN signal
             ELSE <<>>

\* _analyze_rev_strat_signal: <<>> for None, else <<the signal>>.
analyze_rev_strat_signal(bars, classes, current_index) ==
    IF current_index < 3 THEN <<>>
    ELSE LET bar1 == Iloc(bars, current_index - 3)
             bar2 == Iloc(bars, current_index - 2)
             bar3 == Iloc(bars, current_index - 1)
             bar4 == Iloc(bars, current_index)
             class1 == Iloc(classes, current_index - 3)
             class2 == Iloc(classes, current_index - 2)
             class3 == Iloc(classes, current_index - 1)
             class4 == Iloc(classes, current_index)
             bar3_breaks_high == bar3.high > bar1.high
             bar3_breaks_low == bar3.low < bar1.low
             bar4_breaks_high == bar4.high > bar2.high
             bar4_breaks_low == bar4.low < bar2.low
             confidence == IF class1 = 3 THEN REV_STRAT_CONFIDENCE_OUTSIDE
                           ELSE REV_STRAT_CONFIDENCE_DIRECTIONAL
             signal ==
                IF bar3_breaks_high /\ bar4_breaks_low
                THEN LET broke_inside_bar == bar3.high > bar2.high
                         failed_target == bar3.high < bar1.high
                     IN  IF broke_inside_bar /\ failed_target
                         THEN <<SignalRevStrat("BEARISH", confidence, bar1, bar3, current_index)>>
                         ELSE <<>>
                ELSE IF bar3_breaks_low /\ bar4_breaks_high
                THEN LET broke_inside_bar == bar3.low < bar2.low
                         failed_target == bar3.low > bar1.low
                     IN  IF broke_inside_bar /\ failed_target
                         THEN <<SignalRevStrat("BULLISH", confidence, bar1, bar3, current_index)>>
                         ELSE <<>>
                ELSE <<>>
         IN  IF class1 = 1 THEN <<>>
             ELSE IF ~(class1 \in {2, 3} /\ class2 = 1 /\ class3 = 2 /\ class4 = 2) THEN <<>>
             ELSE IF signal = <<>> THEN <<>>
             ELSE IF validate_rev_strat_continuity(signal[1], bars, current_index) THEN signal
             ELSE <<>>

\* The body of the loop of _detect_post_312_rev_strats for one i: the
\* signals it appends (none or one).
Post312At(bars, classes, i) ==
    LET bar1 == Iloc(bars, i - 3)
        bar2 == Iloc(bars, i - 2)
        bar3 == Iloc(bars, i - 1)
        bar4 == Iloc(bars, i)
        prev_sequence == <<Iloc(classes, i - 3), Iloc(classes, i - 2), Iloc(classes, i - 1)>>
        current_class == Iloc(classes, i)
        bar3_breaks_up == bar3.high > bar2.high /\ bar3.low >= bar2.low
        bar3_breaks_down == bar3.low < bar2.low /\ bar3.high <= bar2.high
        bar4_breaks_up == bar4.high > bar2.high /\ bar4.low >= bar2.low
        bar4_breaks_down == bar4.low < bar2.low /\ bar4.high <= bar2.high
    IN  IF prev_sequence = <<3, 1, 2>> /\ current_class = 2
        THEN IF bar3_breaks_down /\ bar4_breaks_up
             THEN IF bar3.low > bar1.low
                  THEN <<SignalRevStrat("BULLISH", REV_STRAT_CONFIDENCE_OUTSIDE, bar1, bar3, i)>>
                  ELSE <<>>
             ELSE IF bar3_breaks_up /\ bar4_breaks_down
             THEN IF bar3.high < bar1.high
                  THEN <<SignalRevStrat("BEARISH", REV_STRAT_CONFIDENCE_OUTSIDE, bar1, bar3, i)>>
                  ELSE <<>>
             ELSE <<>>
        ELSE <<>>

\* _detect_post_312_rev_strats: the loop from i on.
RECURSIVE Post312From(_, _, _, _)
Post312From(bars, classes, i, signals) ==
    IF i >= Len(bars) THEN signals
    ELSE Post312From(bars, classes, i + 1, signals \o Post312At(bars, classes, i))

detect_post_312_rev_strats(bars, classes) ==
    IF Len(bars) < 4 THEN <<>> ELSE Post312From(bars, classes, 3, <<>>)

\* The first loop of detect_rev_strat_pattern from i on.
RECURSIVE ProcessRevStrat(_, _, _, _, _)
ProcessRevStrat(bars, classes, i, recent, signals) ==
    IF i >= Len(bars) THEN [recent |-> recent, signals |-> signals]
    ELSE LET signal == IF i >= 4 THEN analyze_rev_strat_signal(bars, classes, i) ELSE <<>>
         IN  IF signal = <<>> THEN ProcessRevStrat(bars, classes, i + 1, recent, signals)
             ELSE LET check == is_duplicate_pattern(recent, signal[1])
                  IN  ProcessRevStrat(bars, classes, i + 1, check.recent,
                                      IF check.ret THEN signals ELSE Append(signals, signal[1]))

\* start_index = max(4, len(df) - min(10, len(df) - 4))
RevStratStartIndex(n) ==
    LET lookback_window == Min(REV_STRAT_LOOKBACK, n - 4)
    IN  IF n - lookback_window > 4 THEN n - lookback_window ELSE 4

\* detect_rev_strat_pattern(df, strat_classes) on an analyzer whose deque is `recent`.
detect_rev_strat_pattern_ret(bars, classes, recent) ==
    IF Len(bars) < REV_STRAT_MIN_BARS THEN [recent |-> recent, signals |-> <<>>]
    ELSE LET scan == ProcessRevStrat(bars, classes, RevStratStartIndex(Len(bars)), recent, <<>>)
         IN  [recent |-> scan.recent,
              signals |-> scan.signals \o detect_post_312_rev_strats(bars, classes)]

RsInit ==
    /\ dt_df \in RsSeries \cup {ExampleCandles}
    /\ dt_classes = <<>>
    /\ dt_detector = ""
    /\ dt_signals = <<>>
    /\ dt_calls = 0
    /\ dt_pc = "start"
    /\ ClIdle /\ DdIdle /\ CsIdle /\ PsIdle /\ TrIdle /\ GnIdle
    /\ PvIdle /\ PhIdle /\ RmIdle

\* One call of detect_rev_strat_pattern(df, strat_classes).
detect_rev_strat_pattern ==
    /\ dt_pc = "classified"
    /\ dt_calls < DtMaxCalls
    /\ LET result == detect_rev_strat_pattern_ret(dt_df, dt_classes, recent_patterns)
       IN  /\ dt_signals' = result.signals
           /\ recent_patterns' = result.recent
    /\ dt_detector' = "rev-strat"
    /\ dt_calls' = dt_calls + 1
    /\ UNCHANGED <<dt_df, dt_classes, dt_pc>>
    /\ DtFrame

RsNext == DtClassify \/ detect_rev_strat_pattern

SpecRevStrat == RsInit /\ [][RsNext]_vars

FailedBreakoutUp(i) ==
    LET bar1 == Iloc(dt_df, i - 3)
        bar2 == Iloc(dt_df, i - 2)
        bar3 == Iloc(dt_df, i - 1)
        bar4 == Iloc(dt_df, i)
    IN  /\ Iloc(dt_classes, i - 3) \in {2, -2, 3}
        /\ Iloc(dt_classes, i - 2) = 1
        /\ bar3.high > bar2.high /\ bar3.low >= bar2.low /\ bar3.high < bar1.high
        /\ bar4.low < bar2.low /\ bar4.high <= bar2.high
        /\ bar4.close < bar4.open

\* The mirror image: bar 3 breaks the inside bar downward, bar 4 reverses up.
FailedBreakoutDown(i) ==
    LET bar1 == Iloc(dt_df, i - 3)
        bar2 == Iloc(dt_df, i - 2)
        bar3 == Iloc(dt_df, i - 1)
        bar4 == Iloc(dt_df, i)
    IN  /\ Iloc(dt_classes, i - 3) \in {2, -2, 3}
        /\ Iloc(dt_classes, i - 2) = 1
        /\ bar3.low < bar2.low /\ bar3.high <= bar2.high /\ bar3.low > bar1.low
        /\ bar4.high > bar2.high /\ bar4.low >= bar2.low
        /\ bar4.close > bar4.open

C20_FailedBreakoutEmits ==
    (dt_detector = "rev-strat" /\ dt_calls = 1) =>
        \A i \in 4..(Len(dt_df) - 1) :
            /\ FailedBreakoutUp(i) =>
                \E k \in 1..Len(dt_signals) :
                    /\ dt_signals[k].pattern = "Rev STRAT"
                    /\ dt_signals[k].trigger_bar_index = i
                    /\ dt_signals[k].direction = "BEARISH"
                    /\ dt_signals[k].stop_loss = Iloc(dt_df, i - 1).high
                    /\ dt_signals[k].target_price = Iloc(dt_df, i - 3).low
            /\ FailedBreakoutDown(i) =>
                \E k \in 1..Len(dt_signals) :
                    /\ dt_signals[k].pattern = "Rev STRAT"
                    /\ dt_signals[k].trigger_bar_index = i
                    /\ dt_signals[k].direction = "BULLISH"
                    /\ dt_signals[k].stop_loss = Iloc(dt_df, i - 1).low
                    /\ dt_signals[k].target_price = Iloc(dt_df, i - 3).high

(***************************************************************************)
(* Detectors of the 2-1-2 reversal and of the 2-2 continuation             *)
(***************************************************************************)

\* pattern_weights[PatternType.TWO_ONE_TWO_REVERSAL] and
\* [PatternType.TWO_TWO_CONTINUATION], in hundredths.
WEIGHT_TWO_ONE_TWO_REVERSAL == 80
WEIGHT_TWO_TWO_CONTINUATION == 80

\* The STRATSignal built by _analyze_212_reversal_signal.
Signal212Reversal(direction, bar1, bar2, bar3, trigger_index) ==
    LET trigger_price == IF direction = "BULLISH" THEN bar2.high ELSE bar2.low
        entry_price == bar3.open
        stop_loss == IF direction = "BULLISH" THEN bar1.low ELSE bar1.high
        target_price == IF direction = "BULLISH"
                        THEN trigger_price + (bar1.high - bar1.low)
                        ELSE trigger_price - (bar1.high - bar1.low)
    IN  [pattern |-> "2-1-2 reversal",
         direction |-> direction,
         confidence |-> WEIGHT_TWO_ONE_TWO_REVERSAL,
         entry_price |-> entry_price,
         trigger_price |-> trigger_price,
         stop_loss |-> stop_loss,
         target_price |-> target_price,
         timestamp |-> trigger_index,
         trigger_bar_index |-> trigger_index,
         risk_reward_ratio |-> RiskRewardRatio(entry_price, stop_loss, target_price)]

\* _analyze_212_reversal_signal: <<>> for None, else <<the signal>>.
analyze_212_reversal_signal(bars, trigger_index) ==
    LET bar1_idx == trigger_index - 2
        bar1 == Iloc(bars, bar1_idx)
        bar2 == Iloc(bars, trigger_index - 1)
        bar3 == Iloc(bars, trigger_index)
    IN  IF bar1_idx <= 0 THEN <<>>
        ELSE LET bar0 == Iloc(bars, bar1_idx - 1)
                 bar1_up == bar1.high > bar0.high /\ bar1.low >= bar0.low
                 bar1_down == bar1.low < bar0.low /\ bar1.high <= bar0.high
             IN  IF bar1_up /\ bar3.low < bar2.low
                 THEN <<Signal212Reversal("BEARISH", bar1, bar2, bar3, trigger_index)>>
                 ELSE IF bar1_down /\ bar3.high > bar2.high
                 THEN <<Signal212Reversal("BULLISH", bar1, bar2, bar3, trigger_index)>>
                 ELSE <<>>

\* sequence == [2, 1, 2] for the window that ends at index i.
ReversalSequenceMatches(classes, i) ==
    <<Iloc(classes, i - 2), Iloc(classes, i - 1), Iloc(classes, i)>> = <<2, 1, 2>>

\* The loop of detect_212_reversal_pattern from index i on.
RECURSIVE Process212Reversal(_, _, _, _, _)
Process212Reversal(bars, classes, i, recent, signals) ==
    IF i >= Len(classes) THEN [recent |-> recent, signals |-> signals]
    ELSE LET signal == IF ReversalSequenceMatches(classes, i)
                       THEN analyze_212_reversal_signal(bars, i) ELSE <<>>
         IN  IF signal = <<>>
             THEN Process212Reversal(bars, classes, i + 1, recent, signals)
             ELSE LET check == is_duplicate_pattern(recent, signal[1])
                  IN  Process212Reversal(bars, classes, i + 1, check.recent,
                          IF check.ret THEN signals ELSE Append(signals, signal[1]))

\* detect_212_reversal_pattern(df, strat_classes) on an analyzer whose deque
\* is `recent`.
detect_212_reversal_pattern_ret(bars, classes, recent) ==
    IF Len(classes) < 3 THEN [recent |-> recent, signals |-> <<>>]
    ELSE Process212Reversal(bars, classes, 2, recent, <<>>)

\* The STRATSignal built by detect_22_continuation_pattern.
Signal22Continuation(direction, bar1, bar2, i) ==
    LET entry_price == bar2.open
        stop_loss == IF direction = "BULLISH" THEN Min(bar1.low, bar2.low)
                     ELSE IF bar1.high > bar2.high THEN bar1.high ELSE bar2.high
        target_price == IF direction = "BULLISH"
                        THEN bar2.high + (bar2.high - bar1.low)
                        ELSE bar2.low - (bar1.high - bar2.low)
    IN  [pattern |-> "2-2 continuation",
         direction |-> direction,
         confidence |-> WEIGHT_TWO_TWO_CONTINUATION,
         entry_price |-> entry_price,
         trigger_price |-> IF direction = "BULLISH" THEN bar2.high ELSE bar2.low,
         stop_loss |-> stop_loss,
         target_price |-> target_price,
         timestamp |-> i,
         trigger_bar_index |-> i,
         risk_reward_ratio |-> RiskRewardRatio(entry_price, stop_loss, target_price)]

\* The body of the loop of detect_22_continuation_pattern at index i:
\* <<>> when no signal is built, else <<the signal>>.
ContinuationAt(bars, classes, i) ==
    IF Iloc(classes, i - 1) = 2 /\ Iloc(classes, i) = 2 /\ i > 1
    THEN LET bar0 == Iloc(bars, i - 2)
             bar1 == Iloc(bars, i - 1)
             bar2 == Iloc(bars, i)
             bar1_up == bar1.high > bar0.high /\ bar1.low >= bar0.low
             bar1_down == bar1.low < bar0.low /\ bar1.high <= bar0.high
             bar2_up == bar2.high > bar1.high /\ bar2.low >= bar1.low
             bar2_down == bar2.low < bar1.low /\ bar2.high <= bar1.high
         IN  IF bar1_up /\ bar2_up
             THEN <<Signal22Continuation("BULLISH", bar1, bar2, i)>>
             ELSE IF bar1_down /\ bar2_down
             THEN <<Signal22Continuation("BEARISH", bar1, bar2, i)>>
             ELSE <<>>
    ELSE <<>>

\* The loop of detect_22_continuation_pattern from index i on.
RECURSIVE Process22Continuation(_, _, _, _, _)
Process22Continuation(bars, classes, i, recent, signals) ==
    IF i >= Len(classes) THEN [recent |-> recent, signals |-> signals]
    ELSE LET signal == ContinuationAt(bars, classes, i)
         IN  IF signal = <<>>
             THEN Process22Continuation(bars, classes, i + 1, recent, signals)
             ELSE LET check == is_duplicate_pattern(recent, signal[1])
                  IN  Process22Continuation(bars, classes, i + 1, check.recent,
                          IF check.ret THEN signals ELSE Append(signals, signal[1]))

\* detect_22_continuation_pattern(df, strat_classes) on an analyzer whose
\* deque is `recent`.
detect_22_continuation_pattern_ret(bars, classes, recent) ==
    IF Len(classes) < 2 THEN [recent |-> recent, signals |-> <<>>]
    ELSE Process22Continuation(bars, classes, 1, recent, <<>>)

\* One call of detect_212_reversal_pattern(df, strat_classes).
detect_212_reversal_pattern ==
    /\ dt_pc = "classified"
    /\ dt_calls < DtMaxCalls
    /\ LET result == detect_212_reversal_pattern_ret(dt_df, dt_classes, recent_patterns)
       IN  /\ dt_signals' = result.signals
           /\ recent_patterns' = result.recent
    /\ dt_detector' = "2-1-2 reversal"
    /\ dt_calls' = dt_calls + 1
    /\ UNCHANGED <<dt_df, dt_classes, dt_pc>>
    /\ DtFrame

\* One call of detect_22_continuation_pattern(df, strat_classes).
detect_22_continuation_pattern ==
    /\ dt_pc = "classified"
    /\ dt_calls < DtMaxCalls
    /\ LET result == detect_22_continuation_pattern_ret(dt_df, dt_classes, recent_patterns)
       IN  /\ dt_signals' = result.signals
           /\ recent_patterns' = result.recent
    /\ dt_detector' = "2-2 continuation"
    /\ dt_calls' = dt_calls + 1
    /\ UNCHANGED <<dt_df, dt_classes, dt_pc>>
    /\ DtFrame

DtVariantNext ==
    DtClassify \/ detect_212_reversal_pattern \/ detect_22_continuation_pattern

SpecVariants == Dt212Init /\ [][DtVariantNext]_vars

\* The candidates of the last call that are anchored on index i.
EmittedAt(i) == {k \in 1..Len(dt_signals) : dt_signals[k].trigger_bar_index = i}

\* The codes of the three-bar window that ends at index i.
Window3(i) == <<Iloc(dt_classes, i - 2), Iloc(dt_classes, i - 1), Iloc(dt_classes, i)>>

\* The third bar of the window that ends at i breaks the inside bar in the
\* direction of the third code.
ThirdBreaksInside(i) ==
    IF Iloc(dt_classes, i) = 2
    THEN Iloc(dt_df, i).high > Iloc(dt_df, i - 1).high
    ELSE Iloc(dt_df, i).low < Iloc(dt_df, i - 1).low

\* C21: on the first call of the 2-1-2 reversal detector on a classified
\* series, a candidate is emitted for the window ending at index i if and
\* only if the window's codes are [2, 1, -2] or [-2, 1, 2] and the third bar
\* breaks the inside bar in the direction of the third code; the candidate is
\* bearish for [2, 1, -2] and bullish for [-2, 1, 2].
C21_ReversalIffOppositeSign ==
    (dt_detector = "2-1-2 reversal" /\ dt_calls = 1) =>
        \A i \in 2..(Len(dt_classes) - 1) :
            /\ EmittedAt(i) # {} <=>
                   /\ Window3(i) \in {<<2, 1, -2>>, <<-2, 1, 2>>}
                   /\ ThirdBreaksInside(i)
            /\ \A k \in EmittedAt(i) :
                   dt_signals[k].direction =
                       IF Window3(i) = <<2, 1, -2>> THEN "BEARISH" ELSE "BULLISH"

\* The pair of codes that ends at index i.
Window2(i) == <<Iloc(dt_classes, i - 1), Iloc(dt_classes, i)>>

\* Both bars of the pair that ends at i move up (down) against the bar before
\* them; the first bar's predecessor is the reference bar.
ConfirmedUp(i) ==
    /\ i > 1
    /\ Iloc(dt_df, i - 1).high > Iloc(dt_df, i - 2).high
    /\ Iloc(dt_df, i - 1).low >= Iloc(dt_df, i - 2).low
    /\ Iloc(dt_df, i).high > Iloc(dt_df, i - 1).high
    /\ Iloc(dt_df, i).low >= Iloc(dt_df, i - 1).low
ConfirmedDown(i) ==
    /\ i > 1
    /\ Iloc(dt_df, i - 1).low < Iloc(dt_df, i - 2).low
    /\ Iloc(dt_df, i - 1).high <= Iloc(dt_df, i - 2).high
    /\ Iloc(dt_df, i).low < Iloc(dt_df, i - 1).low
    /\ Iloc(dt_df, i).high <= Iloc(dt_df, i - 1).high

\* C22: on the first call of the 2-2 continuation detector on a classified
\* series, the pair ending at index i gets a bullish candidate when it is
\* classified [2, 2] and confirmed upward against the reference bar, a bearish
\* candidate when it is classified [-2, -2] and confirmed downward, and no
\* candidate otherwise.
C22_ContinuationBothDirections ==
    (dt_detector = "2-2 continuation" /\ dt_calls = 1) =>
        \A i \in 1..(Len(dt_classes) - 1) :
            LET bullish == Window2(i) = <<2, 2>> /\ ConfirmedUp(i)
                bearish == Window2(i) = <<-2, -2>> /\ ConfirmedDown(i)
            IN  /\ bullish => \E k \in EmittedAt(i) : dt_signals[k].direction = "BULLISH"
                /\ bearish => \E k \in EmittedAt(i) : dt_signals[k].direction = "BEARISH"
                /\ ~(bullish \/ bearish) => EmittedAt(i) = {}

\* C28: every candidate returned by the 2-1-2 detector is anchored on a
\* window whose codes are [2 or -2, 1, 2 or -2], and is bullish if and only if
\* the code of the window's third (trigger) bar is Up, bearish if and only if
\* it is Down.
C28_DirectionFollowsTriggerCode ==
    dt_detector = "2-1-2" =>
        \A k \in 1..Len(dt_signals) :
            LET i == dt_signals[k].trigger_bar_index
            IN  /\ Window3(i)[1] \in {2, -2}
                /\ Window3(i)[2] = 1
                /\ Window3(i)[3] \in {2, -2}
                /\ dt_signals[k].direction = "BULLISH" <=> Window3(i)[3] = 2
                /\ dt_signals[k].direction = "BEARISH" <=> Window3(i)[3] = -2

(***************************************************************************)
(* Pivot tracker: untaken pivots and PMG runs (core/components.py)         *)
(***************************************************************************)

\* Bounds: the longest price series and the longest pivot marker array.
PvMaxLen == 4
PvMaxArray == 7

PvPrices == 1..3
PvPriceSeries == UNION {[1..n -> PvPrices] : n \in 1..PvMaxLen}
PvMarkers == {1, -1, 0}
PvArrays == UNION {[1..n -> PvMarkers] : n \in 0..PvMaxArray}

\* The pivots at the indices of `indices` (0-based, as in the code), in
\* ascending order of index, each with the price at its index as value.
RECURSIVE PivotsAt(_, _, _)
PivotsAt(prices, indices, idx) ==
    IF idx >= Len(prices) THEN <<>>
    ELSE (IF idx \in indices THEN <<[index |-> idx, value |-> Iloc(prices, idx)]>> ELSE <<>>)
             \o PivotsAt(prices, indices, idx + 1)

\* subsequent_prices = prices.iloc[pivot_idx + 1:], as a set of values.
SubsequentPrices(prices, pivot_idx) ==
    {Iloc(prices, k) : k \in (pivot_idx + 1)..(Len(prices) - 1)}

\* The test of the loop body of get_untaken_pivots for one pivot.
IsUntaken(pivot, prices, pivot_type) ==
    /\ pivot.index < Len(prices) - 1
    /\ IF pivot_type = "high"
       THEN SetMax(SubsequentPrices(prices, pivot.index)) < pivot.value
       ELSE SetMin(SubsequentPrices(prices, pivot.index)) > pivot.value

\* get_untaken_pivots(pivots, prices, pivot_type).
get_untaken_pivots_ret(pivots, prices, pivot_type) ==
    SelectSeq(pivots, LAMBDA pivot : IsUntaken(pivot, prices, pivot_type))

PvFrame == UNCHANGED <<clVars, ddVars, csVars, psVars, trVars, dtVars, gnVars,
                       phVars, rmVars>>

UntakenInit ==
    /\ pv_prices \in PvPriceSeries
    /\ \E indices \in SUBSET (0..(PvMaxLen - 1)) :
           /\ \A idx \in indices : idx < Len(pv_prices)
           /\ pv_pivots = PivotsAt(pv_prices, indices, 0)
    /\ pv_type \in {"high", "low"}
    /\ pv_untaken = <<>>
    /\ pv_array = <<>>
    /\ pv_pmg = <<>>
    /\ pv_pc = "untaken"
    /\ ClIdle /\ DdIdle /\ CsIdle /\ PsIdle /\ TrIdle /\ DtIdle /\ GnIdle
    /\ PhIdle /\ RmIdle

\* One call of get_untaken_pivots(pivots, prices, pivot_type).
get_untaken_pivots ==
    /\ pv_pc = "untaken"
    /\ pv_untaken' = get_untaken_pivots_ret(pv_pivots, pv_prices, pv_type)
    /\ pv_pc' = "done"
    /\ UNCHANGED <<pv_prices, pv_pivots, pv_type, pv_array, pv_pmg>>
    /\ PvFrame

UntakenNext == get_untaken_pivots

SpecUntaken == UntakenInit /\ [][UntakenNext]_vars

\* No later price has crossed the pivot's value in the adverse direction.
NotTaken(pivot) ==
    \A k \in (pivot.index + 1)..(Len(pv_prices) - 1) :
        IF pv_type = "high" THEN ~(Iloc(pv_prices, k) > pivot.value)
        ELSE ~(Iloc(pv_prices, k) < pivot.value)

\* C23: get_untaken_pivots returns exactly the pivots that have not been
\* taken, in their order: a peak is returned if and only if no later high is
\* above its value, a valley if and only if no later low is below its value.
C23_ExactlyTheUntaken ==
    pv_pc = "done" /\ pv_array = <<>> =>
        pv_untaken = SelectSeq(pv_pivots, LAMBDA pivot : NotTaken(pivot))

\* min_count, the default of detect_pmg.
PMG_MIN_COUNT == 5

\* all(current_run[j][1] != current_run[j+1][1] for j in range(len - 1)),
\* for a run of <<index, marker>> pairs.
IsAlternating(current_run) ==
    \A j \in 1..(Len(current_run) - 1) : current_run[j][2] # current_run[j + 1][2]

\* The dict appended to pmg_patterns for a run.
PmgPattern(current_run) ==
    [start_idx |-> current_run[1][1],
     end_idx |-> current_run[Len(current_run)][1],
     pivot_count |-> Len(current_run),
     type |-> IF current_run[1][2] = -1 THEN "bullish" ELSE "bearish"]

\* The loop of detect_pmg from index i on (0-based, as enumerate gives it).
RECURSIVE DetectPmgFrom(_, _, _, _)
DetectPmgFrom(pivot_array, i, current_run, pmg_patterns) ==
    IF i >= Len(pivot_array) THEN pmg_patterns
    ELSE IF Iloc(pivot_array, i) # 0
    THEN LET run == Append(current_run, <<i, Iloc(pivot_array, i)>>)
         IN  DetectPmgFrom(pivot_array, i + 1, run,
                 IF /\ Len(run) >= PMG_MIN_COUNT
                    /\ IsAlternating(run)
                    /\ Len(run) = PMG_MIN_COUNT
                 THEN Append(pmg_patterns, PmgPattern(run))
                 ELSE pmg_patterns)
    ELSE DetectPmgFrom(pivot_array, i + 1, <<>>,
             IF Len(current_run) >= PMG_MIN_COUNT /\ IsAlternating(current_run)
             THEN Append(pmg_patterns, PmgPattern(current_run))
             ELSE pmg_patterns)

\* detect_pmg(pivot_array).
detect_pmg_ret(pivot_array) == DetectPmgFrom(pivot_array, 0, <<>>, <<>>)

PmgInit ==
    /\ pv_array \in PvArrays
    /\ pv_prices = <<>>
    /\ pv_pivots = <<>>
    /\ pv_type = "high"
    /\ pv_untaken = <<>>
    /\ pv_pmg = <<>>
    /\ pv_pc = "pmg"
    /\ ClIdle /\ DdIdle /\ CsIdle /\ PsIdle /\ TrIdle /\ DtIdle /\ GnIdle
    /\ PhIdle /\ RmIdle

\* One call of detect_pmg(pivot_array).
detect_pmg ==
    /\ pv_pc = "pmg"
    /\ pv_pmg' = detect_pmg_ret(pv_array)
    /\ pv_pc' = "done"
    /\ UNCHANGED <<pv_prices, pv_pivots, pv_type, pv_untaken, pv_array>>
    /\ PvFrame

PmgNext == detect_pmg

SpecPmg == PmgInit /\ [][PmgNext]_vars

\* The markers first..last (0-based) are a whole run of pivot markers: all
\* are pivots, and the run cannot be extended on either side.
WholeRun(first, last) ==
    /\ \A k \in first..last : Iloc(pv_array, k) # 0
    /\ first = 0 \/ Iloc(pv_array, first - 1) = 0
    /\ last = Len(pv_array) - 1 \/ Iloc(pv_array, last + 1) = 0

StrictlyAlternates(first, last) ==
    \A k \in first..(last - 1) : Iloc(pv_array, k) # Iloc(pv_array, k + 1)

\* The runs detect_pmg is to report: whole runs of at least 5 pivot markers
\* that strictly alternate, as <<first, last>>.
PmgRuns ==
    {r \in (0..(Len(pv_array) - 1)) \X (0..(Len(pv_array) - 1)) :
        /\ r[2] - r[1] + 1 >= PMG_MIN_COUNT
        /\ WholeRun(r[1], r[2])
        /\ StrictlyAlternates(r[1], r[2])}

\* C24: detect_pmg reports each run of at least 5 consecutive pivot markers
\* that strictly alternate exactly once, with the start index, the end index
\* and the pivot count of the whole run and the direction of its first
\* marker (bullish for a valley, bearish for a peak), and reports nothing else.
C24_EachRunOnce ==
    pv_pc = "done" /\ pv_prices = <<>> =>
        /\ \A r \in PmgRuns :
               Cardinality({k \in 1..Len(pv_pmg) :
                   pv_pmg[k] = [start_idx |-> r[1], end_idx |-> r[2],
                                pivot_count |-> r[2] - r[1] + 1,
                                type |-> IF Iloc(pv_array, r[1]) = -1
                                         THEN "bullish" ELSE "bearish"]}) = 1
        /\ \A k \in 1..Len(pv_pmg) :
               <<pv_pmg[k].start_idx, pv_pmg[k].end_idx>> \in PmgRuns

(***************************************************************************)
(* Deduplicator with a history buffer near its capacity                    *)
(***************************************************************************)

\* The buffer of an analyzer that has kept n candidates of n different bars
\* (timestamps 101, 102, ...), oldest first.
DdPrefilled(n) == [k \in 1..n |-> Fingerprint([DdBase EXCEPT !.timestamp = 100 + k])]

\* The lengths of the buffer the checks start from.
DdPrefillLengths == {RECENT_PATTERNS_MAXLEN - 2, RECENT_PATTERNS_MAXLEN - 1,
                     RECENT_PATTERNS_MAXLEN}

\* The candidates submitted: two of bars not buffered, the one of the oldest
\* buffered bar, the one of the second oldest, and one of another pattern.
DdFullSignals ==
    {DdBase, [DdBase EXCEPT !.timestamp = 2], [DdBase EXCEPT !.timestamp = 101],
     [DdBase EXCEPT !.timestamp = 102], [DdBase EXCEPT !.pattern = "3-1-2"]}

DdFullInit ==
    /\ recent_patterns \in {DdPrefilled(n) : n \in DdPrefillLengths}
    /\ dd_last = DdNoSignal
    /\ dd_ret = FALSE
    /\ dd_n = 0
    /\ ClIdle /\ CsIdle /\ PsIdle /\ TrIdle /\ DtIdle /\ GnIdle
    /\ PvIdle /\ PhIdle /\ RmIdle

DdFullNext == \E signal \in DdFullSignals : IsDuplicatePattern(signal)

SpecDedupFull == DdFullInit /\ [][DdFullNext]_vars

\* The last n elements of a sequence (all of it when it is shorter).
LastN(seq, n) ==
    IF Len(seq) <= n THEN seq ELSE SubSeq(seq, Len(seq) - n + 1, Len(seq))

\* C25: after every duplicate check the history buffer holds at most 50
\* fingerprints; a check that returns true leaves the buffer unchanged, and a
\* check that returns false leaves the last 50 of the old buffer followed by
\* the new fingerprint: insertion order is kept and the oldest fingerprint is
\* evicted when a 51st is inserted.
C25_BoundedHistory ==
    [][(dd_n' = dd_n + 1) =>
        /\ Len(recent_patterns') <= 50
        /\ dd_ret' = TRUE => recent_patterns' = recent_patterns
        /\ dd_ret' = FALSE =>
               recent_patterns' =
                   LastN(Append(recent_patterns, Fingerprint(dd_last')), 50)
      ]_vars

\* C25 witness: a 51st fingerprint was inserted into a full buffer: the
\* oldest one (bar 101) is gone, the second oldest is now first and the new
\* one is last.
C25_Witness ==
    /\ dd_n = 1
    /\ dd_ret = FALSE
    /\ Len(recent_patterns) = 50
    /\ recent_patterns[1].timestamp = 102
    /\ recent_patterns[50] = Fingerprint(dd_last)

(***************************************************************************)
(* Portfolio heat (utils/portfolio_heat.py)                                *)
(* Risk amounts and capital are whole dollars; max_heat is in hundredths.  *)
(***************************************************************************)

\* Bound: the number of calls made on the manager.
PhMaxCalls == 4

\* max_heat, the default of PortfolioHeatManager.__init__: 0.08.
PH_MAX_HEAT == 8

PhSymbols == {"SPY", "QQQ", "IWM"}
PhRisks == {-1, 2, 5, 9}
PhCapitals == {100, 50}

\* sum(self.active_positions.values())
RECURSIVE SumRisk(_, _)
SumRisk(positions, symbols) ==
    IF symbols = {} THEN 0
    ELSE LET symbol == CHOOSE x \in symbols : TRUE
         IN  (IF positions[symbol] = <<>> THEN 0 ELSE positions[symbol][1])
                 + SumRisk(positions, symbols \ {symbol})

TotalRisk(positions) == SumRisk(positions, PhSymbols)

\* calculate_current_heat(capital), as the pair <<numerator, denominator>>.
calculate_current_heat(positions, capital) ==
    IF capital <= 0 THEN <<0, 1>>
    ELSE IF \A symbol \in PhSymbols : positions[symbol] = <<>> THEN <<0, 1>>
    ELSE <<TotalRisk(positions), capital>>

\* can_accept_trade(symbol, position_risk, capital): new_heat > max_heat is
\* compared without dividing.
can_accept_trade_ret(positions, position_risk, capital) ==
    LET new_total_risk == TotalRisk(positions) + position_risk
    IN  IF capital > 0 /\ 100 * new_total_risk > PH_MAX_HEAT * capital
        THEN FALSE ELSE TRUE

PhFrame == UNCHANGED <<clVars, ddVars, csVars, psVars, trVars, dtVars, gnVars,
                       pvVars, rmVars>>

PhInit ==
    /\ ph_capital \in PhCapitals
    /\ ph_positions = [symbol \in PhSymbols |-> <<>>]
    /\ ph_accepted = <<>>
    /\ ph_ret = ""
    /\ ph_n = 0
    /\ ph_pc = "run"
    /\ ClIdle /\ DdIdle /\ CsIdle /\ PsIdle /\ TrIdle /\ DtIdle /\ GnIdle
    /\ PvIdle /\ RmIdle

\* One call of can_accept_trade(symbol, position_risk, capital).
can_accept_trade(symbol, position_risk) ==
    /\ ph_pc = "run"
    /\ ph_n < PhMaxCalls
    /\ LET ret == can_accept_trade_ret(ph_positions, position_risk, ph_capital)
       IN  /\ ph_ret' = IF ret THEN "True" ELSE "False"
           /\ ph_accepted' = IF ret THEN <<symbol, position_risk>> ELSE <<>>
    /\ ph_n' = ph_n + 1
    /\ UNCHANGED <<ph_capital, ph_positions, ph_pc>>
    /\ PhFrame

\* One call of add_position(symbol, risk_amount), made by a caller that has
\* just had the same trade accepted by can_accept_trade.
add_position(symbol, risk_amount) ==
    /\ ph_pc = "run"
    /\ ph_n < PhMaxCalls
    /\ ph_accepted = <<symbol, risk_amount>>
    /\ IF ph_positions[symbol] # <<>> \/ risk_amount < 0
       THEN /\ ph_ret' = "ValueError"
            /\ UNCHANGED ph_positions
       ELSE /\ ph_ret' = "None"
            /\ ph_positions' = [ph_positions EXCEPT ![symbol] = <<risk_amount>>]
    /\ ph_accepted' = <<>>
    /\ ph_n' = ph_n + 1
    /\ UNCHANGED <<ph_capital, ph_pc>>
    /\ PhFrame

\* One call of remove_position(symbol).
remove_position(symbol) ==
    /\ ph_pc = "run"
    /\ ph_n < PhMaxCalls
    /\ ph_positions' = [ph_positions EXCEPT ![symbol] = <<>>]
    /\ ph_ret' = "None"
    /\ ph_accepted' = <<>>
    /\ ph_n' = ph_n + 1
    /\ UNCHANGED <<ph_capital, ph_pc>>
    /\ PhFrame

\* One call of update_position_risk(symbol, new_risk).
update_position_risk(symbol, new_risk) ==
    /\ ph_pc = "run"
    /\ ph_n < PhMaxCalls
    /\ IF ph_positions[symbol] = <<>> \/ new_risk < 0
       THEN /\ ph_ret' = "ValueError"
            /\ UNCHANGED ph_positions
       ELSE /\ ph_ret' = "None"
            /\ ph_positions' = [ph_positions EXCEPT ![symbol] = <<new_risk>>]
    /\ ph_accepted' = <<>>
    /\ ph_n' = ph_n + 1
    /\ UNCHANGED <<ph_capital, ph_pc>>
    /\ PhFrame

PhNext ==
    \/ \E symbol \in PhSymbols, risk \in PhRisks : can_accept_trade(symbol, risk)
    \/ \E symbol \in PhSymbols, risk \in PhRisks : add_position(symbol, risk)
    \/ \E symbol \in PhSymbols : remove_position(symbol)
    \/ \E symbol \in PhSymbols, risk \in PhRisks : update_position_risk(symbol, risk)

SpecHeat == PhInit /\ [][PhNext]_vars

\* C26: with a fixed positive capital, when every add_position follows a
\* can_accept_trade of the same trade that returned True in the same state,
\* calculate_current_heat(capital) is at most max_heat after any sequence of
\* add_position, remove_position and update_position_risk calls.
C26_HeatWithinLimit ==
    ph_pc = "run" =>
        LET heat == calculate_current_heat(ph_positions, ph_capital)
        IN  100 * heat[1] <= PH_MAX_HEAT * heat[2]

(***************************************************************************)
(* Drawdown circuit breakers (core/risk_manager.py)                        *)
(* Equity is in whole dollars; the risk multiplier is in tenths.           *)
(***************************************************************************)

\* Bound: the number of update_equity calls made on the manager.
RmMaxUpdates == 4

\* The thresholds of check_circuit_breakers, in hundredths.
DD_STOP_TRADING == 20
DD_REDUCE_SIZE == 15
DD_WARNING == 10

RmEquities == {0, 75, 80, 82, 85, 88, 90, 95, 100, 110}

\* calculate_drawdown(), as the pair <<numerator, denominator>>:
\* max(0.0, (peak_equity - current_equity) / peak_equity), 0.0 for a zero peak.
calculate_drawdown(peak_equity, current_equity) ==
    IF peak_equity = 0 THEN <<0, 1>>
    ELSE IF peak_equity - current_equity < 0 THEN <<0, 1>>
    ELSE <<peak_equity - current_equity, peak_equity>>

\* drawdown >= threshold, for a threshold in hundredths.
AtLeast(drawdown, threshold) == 100 * drawdown[1] >= threshold * drawdown[2]

\* check_circuit_breakers(drawdown): the <<trading_enabled, risk_multiplier>>
\* it leaves.
check_circuit_breakers(drawdown, trading_enabled, risk_multiplier) ==
    IF AtLeast(drawdown, DD_STOP_TRADING) THEN <<FALSE, 0>>
    ELSE IF AtLeast(drawdown, DD_REDUCE_SIZE) THEN <<trading_enabled, 5>>
    ELSE IF AtLeast(drawdown, DD_WARNING) THEN <<trading_enabled, risk_multiplier>>
    ELSE <<TRUE, 10>>

RmFrame == UNCHANGED <<clVars, ddVars, csVars, psVars, trVars, dtVars, gnVars,
                       pvVars, phVars>>

RmInit ==
    /\ rm_peak_equity = 0
    /\ rm_current_equity = 0
    /\ rm_trading_enabled = TRUE
    /\ rm_risk_multiplier = 10
    /\ rm_n = 0
    /\ rm_pc = "run"
    /\ ClIdle /\ DdIdle /\ CsIdle /\ PsIdle /\ TrIdle /\ DtIdle /\ GnIdle
    /\ PvIdle /\ PhIdle

\* One call of update_equity(equity).
update_equity(equity) ==
    /\ rm_pc = "run"
    /\ rm_n < RmMaxUpdates
    /\ rm_current_equity' = equity
    /\ rm_peak_equity' = IF equity > rm_peak_equity THEN equity ELSE rm_peak_equity
    /\ LET drawdown == calculate_drawdown(rm_peak_equity', rm_current_equity')
           after == check_circuit_breakers(drawdown, rm_trading_enabled, rm_risk_multiplier)
       IN  /\ rm_trading_enabled' = after[1]
           /\ rm_risk_multiplier' = after[2]
    /\ rm_n' = rm_n + 1
    /\ UNCHANGED rm_pc
    /\ RmFrame

RmNext == \E equity \in RmEquities : update_equity(equity)

SpecBreakers == RmInit /\ [][RmNext]_vars

\* C27: after every update_equity call, with d = (peak - equity) / peak for
\* the highest equity seen so far: d >= 20% gives trading disabled and risk
\* multiplier 0.0; 15% <= d < 20% gives risk multiplier 0.5 with trading
\* enabled; d < 10% gives trading enabled and risk multiplier 1.0; and a call
\* that leaves 10% <= d < 15% changes neither of the two.
C27_StateMatchesBand ==
    [][(rm_n' = rm_n + 1 /\ rm_peak_equity' > 0) =>
        LET lost == 100 * (rm_peak_equity' - rm_current_equity')
            peak == rm_peak_equity'
        IN  /\ rm_peak_equity' =
                   (IF rm_current_equity' > rm_peak_equity
                    THEN rm_current_equity' ELSE rm_peak_equity)
            /\ lost >= 20 * peak =>
                   rm_trading_enabled' = FALSE /\ rm_risk_multiplier' = 0
            /\ (lost >= 15 * peak /\ lost < 20 * peak) =>
                   rm_trading_enabled' = TRUE /\ rm_risk_multiplier' = 5
            /\ lost < 10 * peak =>
                   rm_trading_enabled' = TRUE /\ rm_risk_multiplier' = 10
            /\ (lost >= 10 * peak /\ lost < 15 * peak) =>
                   /\ rm_trading_enabled' = rm_trading_enabled
                   /\ rm_risk_multiplier' = rm_risk_multiplier
      ]_vars

(***************************************************************************)
(* Pattern lifecycle machine: several patterns on one InsideBarTracker     *)
(***************************************************************************)

\* C29: whatever the interleaving of update_pattern calls on the patterns of
\* one machine, the entry trigger and the stop level a pattern has received
\* on reaching Triggered are those of its own inside bar, the bar passed to
\* the update that made it Pending: high plus buffer and low for a long,
\* low minus buffer and high for a short.
C29_OwnInsideBar ==
    \A id \in DOMAIN patterns :
        LET c == patterns[id].context
        IN  (c.entry_trigger # <<>> /\ c.own_inside_bar # <<>>) =>
                IF c.direction = "bullish"
                THEN /\ c.entry_trigger[1] = c.own_inside_bar[1].high + TRACKER_BUFFER
                     /\ c.stop_level = <<c.own_inside_bar[1].low>>
                ELSE /\ c.entry_trigger[1] = c.own_inside_bar[1].low - TRACKER_BUFFER
                     /\ c.stop_level = <<c.own_inside_bar[1].high>>

\* C30: in every state reachable through start_pattern and update_pattern,
\* check_trigger, enter_trade and check_exit return a result for every bar
\* and every tracked pattern: none raises on a comparison with an entry
\* trigger or a stop level that is None.
C30_NoRaise ==
    \A id \in DOMAIN patterns : \A b \in PsBars :
        /\ check_trigger_ret(id, b.high, b.low) \in {"True", "False"}
        /\ \A p \in PsFills : enter_trade_ret(id, p) \in {"True", "False"}
        /\ check_exit_ret(id, b.high, b.low) # "TypeError"

====
